---- MODULE Spec2Model ----
(***************************************************************************)
(* A model of the TaxPro backend: the relational store (users, customers,  *)
(* accountants, tax_returns and its child tables), the authentication and  *)
(* authorization middleware, and the route handlers of /api/auth,          *)
(* /api/tax-returns, /api/users and /api/admin.  Every awaited database    *)
(* statement of a handler is one atomic step of the request that runs it;  *)
(* requests in flight interleave at these steps.                           *)
(***************************************************************************)
EXTENDS Integers, Sequences, FiniteSets, TLC

\* ---------------------------------------------------------------- bounds
MaxReq == 2        \* requests in flight at once
MaxReturns == 3    \* tax_returns ids ever allocated (one is the seeded return)
MaxUsers == 5      \* users rows (three are seeded)
MaxDeleted == 1    \* soft deletes of one users row
MaxSession == 3    \* requests of one client session
MaxFiles == 2      \* files of one upload request
MaxStored == 3     \* files ever written to the upload directory
MaxStatements == 2  \* statements the callback of a transaction runs
MaxInquiries == 2   \* contact inquiries submitted
MaxResets == 2     \* reset tokens set on one users row

VARIABLES
  users,        \* users table: sequence of rows, the id is the index
  customers,    \* customers table: set of [id, user_id]
  accountants,  \* accountants table: set of [id, user_id, is_active]
  tax_returns,  \* tax_returns table: set of rows
  childRows,    \* child tables: table name -> tax_return_ids that have a row in it
  reviews,      \* reviews table: tax_return_ids referenced by a review
  nextTrId,     \* next fresh tax_returns id (uuid_generate_v4 never repeats)
  documents,    \* documents table: set of [id, tax_return_id, uploaded_by, file_path]
  disk,         \* the upload directory: the file paths present in it
  nextFile,     \* next fresh document id and file name (uuids and random names)
  contact_inquiries,  \* contact_inquiries table: set of [id, status, assigned_to]
  tx,           \* the calls of the transaction helper, one per caller
  req,          \* requests in flight: slot -> request record
  script        \* the client side: requests sent, answers logged, token held

\* the store: the database and the upload directory
fileVars == <<documents, disk, nextFile>>
dbVars == <<users, customers, accountants, tax_returns, childRows, reviews, nextTrId, fileVars,
            contact_inquiries, tx>>
vars == <<users, customers, accountants, tax_returns, childRows, reviews, nextTrId,
          documents, disk, nextFile, contact_inquiries, tx, req, script>>

Req == 1..MaxReq

\* ------------------------------------------------------------ data values
Null == <<>>                  \* SQL NULL / JS null
Undefined == <<"undefined">>  \* JS undefined (rows[0]?.id of an empty result)

CustomerId(u) == <<"customer", u>>      \* customers.id of the profile of user u
AccountantId(u) == <<"accountant", u>>  \* accountants.id of the profile of user u

Roles == {"customer", "accountant", "admin"}
Statuses == {"pending", "in_progress", "review", "completed", "filed", "cancelled"}
ChildTables == {"messages", "documents", "expenses", "income_sources", "payments"}
\* the child tables whose tax_return_id is declared ON DELETE CASCADE
CascadeTables == {"income_sources", "expenses", "documents", "messages", "payments"}
TaxYears == {"2023-24", "2022-23"}

\* users.email: the address, and the '_deleted_<epoch>' suffixes User.delete has
\* appended to it, each the time of its delete (a suffixed value is no address
\* a registration can carry)
Email(addr) == [addr |-> addr, deleted |-> <<>>]

\* bcrypt.hash and bcrypt.compare
bcryptHash(pw) == <<"bcrypt", pw>>
bcryptCompare(pw, hash) == hash = bcryptHash(pw)

UserRow(email, pw, role, verified, vtoken) ==
  [email |-> Email(email), password_hash |-> bcryptHash(pw), role |-> role,
   is_verified |-> verified, verification_token |-> vtoken,
   reset_password_token |-> 0, first_name |-> "Name"]

TaxReturnRow(id, cust, acc, year, status) ==
  [id |-> id, customer_id |-> cust, accountant_id |-> acc, tax_year |-> year,
   status |-> status, total_income |-> "null", hmrc_reference |-> "",
   filed_date |-> FALSE]

NoRow == [id |-> 0, customer_id |-> Null, accountant_id |-> Null, tax_year |-> "",
          status |-> "", total_income |-> "null", hmrc_reference |-> "",
          filed_date |-> FALSE]

UserIds == 1..Len(users)
TrIds == {t.id : t \in tax_returns}

\* ----------------------------------------------------------------- tokens
\* A bearer token: the user id it names, whether its signature verifies under
\* JWT_SECRET and whether it is past its expiry.  sig = "none": no Bearer header.
NoToken == [sub |-> 0, sig |-> "none", expired |-> FALSE]
GoodToken(u) == [sub |-> u, sig |-> "good", expired |-> FALSE]
ExpiredToken(u) == [sub |-> u, sig |-> "good", expired |-> TRUE]
TamperedToken(u) == [sub |-> u, sig |-> "bad", expired |-> FALSE]
TamperedExpiredToken(u) == [sub |-> u, sig |-> "bad", expired |-> TRUE]

\* a faulty variant of jwt.verify, for mutation: the expiry is checked first
jwtVerifyExpiryFirst(token) ==
  IF token.expired THEN "TokenExpiredError"
  ELSE IF token.sig # "good" THEN "JsonWebTokenError"
  ELSE "ok"

\* jwt.verify: the signature is checked first, the expiry after it
jwtVerify(token) ==
  IF token.sig # "good" THEN "JsonWebTokenError"
  ELSE IF token.expired THEN "TokenExpiredError"
  ELSE "ok"

NoUser == [id |-> 0, role |-> "none"]

\* a documents row joined with its tax return (SELECT d.*, tr.customer_id,
\* tr.accountant_id); NoDoc: the empty result
DocRow(id, trid, uploader, path) ==
  [id |-> id, tax_return_id |-> trid, uploaded_by |-> uploader, file_path |-> path]
NoDoc == [id |-> 0, tax_return_id |-> 0, uploaded_by |-> 0, file_path |-> 0,
          customer_id |-> Null, accountant_id |-> Null]

Answer(status, err) == [status |-> status, error |-> err]
Pass == Answer(0, "")

\* authenticate: the answer it gives (Pass: it calls next())
authenticateMissingHeader(hdr) == hdr.sig = "none"

\* a faulty variant of authenticate, for mutation: is_verified is not looked at
authenticateUnverifiedToo(hdr) ==
  IF authenticateMissingHeader(hdr)
    THEN Answer(401, "Access denied. No token provided.")
  ELSE IF jwtVerify(hdr) = "TokenExpiredError"
    THEN Answer(401, "Access denied. Token expired.")
  ELSE IF jwtVerify(hdr) = "JsonWebTokenError"
    THEN Answer(401, "Access denied. Invalid token.")
  ELSE IF hdr.sub \notin UserIds
    THEN Answer(401, "Access denied. User not found.")
  ELSE Pass

authenticate(hdr) ==
  IF authenticateMissingHeader(hdr)
    THEN Answer(401, "Access denied. No token provided.")
  ELSE IF jwtVerify(hdr) = "TokenExpiredError"
    THEN Answer(401, "Access denied. Token expired.")
  ELSE IF jwtVerify(hdr) = "JsonWebTokenError"
    THEN Answer(401, "Access denied. Invalid token.")
  ELSE IF hdr.sub \notin UserIds
    THEN Answer(401, "Access denied. User not found.")
  ELSE IF ~users[hdr.sub].is_verified
    THEN Answer(401, "Access denied. Please verify your email address.")
  ELSE Pass

\* req.user as authenticate sets it from the stored row
reqUser(hdr) == [id |-> hdr.sub, role |-> users[hdr.sub].role]

\* authorize(...roles)
authorize(roles, user) ==
  IF user = NoUser
    THEN Answer(401, "Access denied. Authentication required.")
  ELSE IF user.role \notin roles
    THEN Answer(403, "Access denied. Insufficient permissions.")
  ELSE Pass


\* ----------------------------------------------------------------- routes
PublicEps == {"register", "login", "verify_email", "forgot_password", "contact_create"}

\* a faulty variant of the route table, for mutation: DELETE /api/tax-returns/:id
\* declared with authorize('accountant', 'admin')
AllowedRolesDeleteByAccountant(ep) ==
  CASE ep = "tr_create" -> {"customer"}
    [] ep \in {"tr_status", "tr_calculations", "tr_file", "tr_delete"} -> {"accountant", "admin"}
    [] ep \in {"tr_assign", "user_delete"} -> {"admin"}
    [] ep \in {"admin_dashboard", "admin_accountant_status"} -> {"admin"}
    [] ep \in {"contact_status", "contact_assign"} -> {"admin"}
    [] OTHER -> Roles

\* the roles authorize(...) is given on each route (routes without authorize: all)
AllowedRoles(ep) ==
  CASE ep = "tr_create" -> {"customer"}
    [] ep \in {"tr_status", "tr_calculations", "tr_file"} -> {"accountant", "admin"}
    [] ep \in {"tr_assign", "tr_delete"} -> {"admin"}
    [] ep = "user_delete" -> {"admin"}
    [] ep \in {"admin_dashboard", "admin_accountant_status"} -> {"admin"}
    [] ep \in {"contact_status", "contact_assign"} -> {"admin"}
    [] OTHER -> Roles

\* request parameters (route parameters and body fields)
NoArg == [id |-> 0, taxYear |-> "", email |-> "", password |-> "", role |-> "",
          status |-> "", accountantId |-> Null, hmrcReference |-> "",
          totalIncome |-> "null", isActive |-> FALSE, token |-> 0, files |-> <<>>,
          assignedTo |-> 0, firstName |-> "", path |-> ""]

\* express-validator's normalizeEmail: lower-cases the address
normalizeEmail(e) ==
  CASE e = "New@X.com" -> "new@x.com"
    [] e = "Customer@TaxPro.com" -> "customer@taxpro.com"
    [] OTHER -> e

ValidPasswords == {"Passw0rd1", "Passw0rd2"}

\* the status values of contact_inquiries
InquiryStatuses == {"new", "in_progress", "resolved", "closed"}

\* express-validator's isUUID; 0 stands for a value that is no uuid
isUUID(v) == v # 0

\* express-validator's isEmail
isEmail(e) == e \notin {"", "not-an-email"}

\* a faulty variant of the validation chains, for mutation: the role of a
\* registration is not validated
validateRoleUnchecked(ep, arg) ==
  LET ok == CASE ep = "register" -> arg.password \in ValidPasswords
              [] OTHER -> TRUE
  IN IF ok THEN Pass ELSE Answer(400, "Validation failed")

\* the validation chain of each route with handleValidationErrors; "" stands
\* for a field the body does not have
validate(ep, arg) ==
  LET ok == CASE ep = "register" ->
                   /\ arg.password \in ValidPasswords
                   /\ arg.role \in {"", "customer", "accountant"}
              [] ep = "login" -> arg.password # ""
              [] ep = "verify_email" -> arg.token # 0
              [] ep = "tr_create" -> arg.taxYear \in TaxYears
              [] ep = "tr_status" -> arg.status \in Statuses
              [] ep = "tr_file" -> arg.hmrcReference # ""
              [] ep = "forgot_password" -> isEmail(arg.email)
              [] ep = "contact_create" -> isEmail(arg.email)
              [] ep = "user_profile" -> arg.firstName \in {"", "Ann", "Bob"}
              [] ep = "contact_status" -> arg.status \in InquiryStatuses
              [] ep = "contact_assign" -> isUUID(arg.assignedTo)
              [] OTHER -> TRUE
  IN IF ok THEN Pass ELSE Answer(400, "Validation failed")

\* the first awaited statement of each route's handler
FirstStep(ep) ==
  CASE ep = "register" -> "findByEmail"
    [] ep = "login" -> "findByEmail"
    [] ep = "forgot_password" -> "findByEmail"
    [] ep = "verify_email" -> "findByVerificationToken"
    [] ep = "tr_create" -> "getCustomerId"
    [] ep \in {"tr_get", "tr_status", "tr_assign", "tr_calculations", "tr_file",
               "tr_income", "tr_delete"} -> "findById"
    [] ep = "user_delete" -> "findUser"
    [] ep = "admin_accountant_status" -> "updateAccountant"
    [] ep = "doc_upload" -> "multer"
    [] ep \in {"doc_get", "doc_delete"} -> "findDocument"
    [] ep = "contact_create" -> "insertInquiry"
    [] ep = "user_profile" -> "findUser"
    [] ep = "contact_status" -> "updateInquiry"
    [] ep = "contact_assign" -> "userCheck"
    [] OTHER -> "respond"

\* ------------------------------------------------------------ request record
Idle == [ep |-> "none", pc |-> "idle", hdr |-> NoToken, arg |-> NoArg,
         user |-> NoUser, ran |-> FALSE, snap |-> NoRow, cid |-> Null, found |-> 0,
         k |-> 0, pend |-> {}, pendTr |-> FALSE,
         status |-> 0, error |-> "", token |-> 0, wrote |-> FALSE,
         files |-> <<>>, doc |-> NoDoc, unlinkErr |-> FALSE,
         message |-> "", resetToken |-> 0]

Done(q, status, err) == [q EXCEPT !.pc = "done", !.status = status, !.error = err]

\* middleware/errorHandler.js, the terminal error responder behind next(error)
errorHandler(q) == Done(q, 500, "Server Error")

\* the middleware chain in front of a route's handler: authenticate, authorize,
\* the validation chain; the handler is entered only when all of them pass
Middleware(ep, hdr, arg) ==
  LET a == IF ep \in PublicEps THEN Pass ELSE authenticate(hdr)
      user == IF ep \notin PublicEps /\ a = Pass THEN reqUser(hdr) ELSE NoUser
      z == IF a # Pass \/ ep \in PublicEps THEN a ELSE authorize(AllowedRoles(ep), user)
      v == IF z # Pass THEN z ELSE validate(ep, arg)
      q == [Idle EXCEPT !.ep = ep, !.hdr = hdr, !.user = user,
                        !.arg = [arg EXCEPT !.email = normalizeEmail(@)]]
  IN IF v = Pass THEN [q EXCEPT !.pc = FirstStep(ep), !.ran = TRUE]
     ELSE Done(q, v.status, v.error)

\* a request arrives and runs through the middleware chain
Request(r, ep, hdr, arg) ==
  /\ req[r].pc = "idle"
  /\ req' = [req EXCEPT ![r] = Middleware(ep, hdr, arg)]
  /\ UNCHANGED <<dbVars, script>>

\* the response has been sent; the slot serves the next request
Reset(r) ==
  /\ req[r].pc = "done"
  /\ req' = [req EXCEPT ![r] = Idle]
  /\ UNCHANGED <<dbVars, script>>

\* ------------------------------------------------------- profile look-ups
\* getCustomerIdFromUser: rows[0]?.id || null
getCustomerIdFromUser(u) ==
  IF \E c \in customers : c.user_id = u
    THEN (CHOOSE c \in customers : c.user_id = u).id
    ELSE Null

\* SELECT id FROM accountants WHERE user_id = $1; rows[0]?.id
accountantIdOfUser(u) ==
  IF \E a \in accountants : a.user_id = u
    THEN (CHOOSE a \in accountants : a.user_id = u).id
    ELSE Undefined

\* TaxReturn.findByCustomerId(customerId, { taxYear })
findByCustomerId(cid, year) ==
  {t \in tax_returns : t.customer_id = cid /\ t.tax_year = year}

\* TaxReturn.findById
findById(id) ==
  IF id \in TrIds THEN CHOOSE t \in tax_returns : t.id = id ELSE NoRow

\* tax_returns rows locked by a DELETE of a transaction that has not ended:
\* statements of other sessions that write the row, or insert a row that
\* references it, wait for the transaction
LockedTr(r) ==
  {req[o].arg.id : o \in {x \in Req : x # r /\ req[x].pc = "txCommit" /\ req[x].pendTr}}

\* ------------------------------------------------- POST /api/tax-returns
TrCreateGetCustomerId(r) ==
  /\ req[r].ep = "tr_create" /\ req[r].pc = "getCustomerId"
  /\ LET cid == getCustomerIdFromUser(req[r].user.id)
     IN req' = [req EXCEPT ![r] =
                  IF cid = Null THEN Done(@, 400, "Customer profile not found")
                  ELSE [@ EXCEPT !.pc = "findByCustomerId", !.cid = cid]]
  /\ UNCHANGED <<dbVars, script>>

\* a faulty variant of the duplicate check, for mutation: only pending returns count
TrCreateExistsPendingOnly(cid, year) ==
  {t \in findByCustomerId(cid, year) : t.status = "pending"} # {}

\* existingReturns.length > 0
TrCreateExists(cid, year) == findByCustomerId(cid, year) # {}

TrCreateCheckExisting(r) ==
  /\ req[r].ep = "tr_create" /\ req[r].pc = "findByCustomerId"
  /\ req' = [req EXCEPT ![r] =
               IF TrCreateExists(req[r].cid, req[r].arg.taxYear)
                 THEN Done(@, 400, "Tax return for this year already exists")
                 ELSE [@ EXCEPT !.pc = "insertTaxReturn"]]
  /\ UNCHANGED <<dbVars, script>>

\* TaxReturn.create: INSERT INTO tax_returns; the table has no unique
\* constraint, the insert always succeeds
TrCreateInsert(r) ==
  /\ req[r].ep = "tr_create" /\ req[r].pc = "insertTaxReturn"
  /\ tax_returns' = tax_returns \cup
       {TaxReturnRow(nextTrId, req[r].cid, Null, req[r].arg.taxYear, "pending")}
  /\ nextTrId' = nextTrId + 1
  /\ req' = [req EXCEPT ![r] = [Done(@, 201, "") EXCEPT !.wrote = TRUE, !.found = nextTrId]]
  /\ UNCHANGED <<users, customers, accountants, childRows, reviews, fileVars, contact_inquiries, tx, script>>


\* ------------------------------------- the routes addressed by /:id
IdEps == {"tr_get", "tr_status", "tr_assign", "tr_calculations", "tr_file",
          "tr_income", "tr_delete"}

\* the roles whose requests the handler checks against the return:
\* GET /:id and POST /:id/income check customers and accountants,
\* PUT /:id/status, PUT /:id/calculations and POST /:id/file accountants
OwnershipRoles(ep) ==
  CASE ep \in {"tr_get", "tr_income"} -> {"customer", "accountant"}
    [] ep \in {"tr_status", "tr_calculations", "tr_file"} -> {"accountant"}
    [] OTHER -> {}

\* the step that follows the ownership check of a route
ActionStep(ep) ==
  CASE ep = "tr_get" -> "getFullDetails"
    [] ep = "tr_status" -> "updateStatus"
    [] ep = "tr_calculations" -> "updateCalculations"
    [] ep = "tr_file" -> "markAsFiled"
    [] ep = "tr_income" -> "insertIncome"
    [] ep = "tr_assign" -> "accountantCheck"
    [] ep = "tr_delete" -> "txBegin"

\* const taxReturn = await TaxReturn.findById(req.params.id)
TrFindById(r) ==
  /\ req[r].ep \in IdEps /\ req[r].pc = "findById"
  /\ isUUID(req[r].arg.id)
  /\ LET row == findById(req[r].arg.id)
     IN req' = [req EXCEPT ![r] =
                  IF row = NoRow THEN Done(@, 404, "Tax return not found")
                  ELSE [@ EXCEPT !.snap = row,
                                 !.pc = IF req[r].user.role \in OwnershipRoles(req[r].ep)
                                          THEN "ownership" ELSE ActionStep(req[r].ep)]]
  /\ UNCHANGED <<dbVars, script>>

\* a faulty variant of the comparison, for mutation: != in place of !==, under
\* which null and undefined are equal
OwnershipDeniedLoose(user, snap) ==
  LET loose(v) == IF v = Undefined THEN Null ELSE v
  IN CASE user.role = "customer" -> snap.customer_id # getCustomerIdFromUser(user.id)
       [] user.role = "accountant" ->
            loose(snap.accountant_id) # loose(accountantIdOfUser(user.id))
       [] OTHER -> FALSE

\* taxReturn.customerId !== customerId, taxReturn.accountantId !== accountantId
OwnershipDenied(user, snap) ==
  CASE user.role = "customer" -> snap.customer_id # getCustomerIdFromUser(user.id)
    [] user.role = "accountant" -> snap.accountant_id # accountantIdOfUser(user.id)
    [] OTHER -> FALSE

\* the profile look-up of the ownership check and the comparison after it
TrOwnership(r) ==
  /\ req[r].ep \in IdEps /\ req[r].pc = "ownership"
  /\ req' = [req EXCEPT ![r] =
               IF OwnershipDenied(req[r].user, req[r].snap)
                 THEN Done(@, 403, "Access denied")
                 ELSE [@ EXCEPT !.pc = ActionStep(req[r].ep)]]
  /\ UNCHANGED <<dbVars, script>>

\* TaxReturn.findById with an id that is no uuid: tax_returns.id is a UUID
\* column, the SELECT fails with invalid input syntax and the handler's catch
\* passes the error on
TrFindByIdInvalid(r) ==
  /\ req[r].ep \in IdEps /\ req[r].pc = "findById"
  /\ ~isUUID(req[r].arg.id)
  /\ req' = [req EXCEPT ![r] = errorHandler(@)]
  /\ UNCHANGED <<dbVars, script>>

\* the GET routes of routes/taxReturns.js, in the order they are declared
GetRoutes ==
  << [path |-> "/", ep |-> "tr_list"],
     [path |-> "/:id", ep |-> "tr_get"],
     [path |-> "/stats", ep |-> "tr_stats"] >>

\* the request paths the clients of the model send: the statistics and two
\* tax returns by id
GetPaths == {"/stats", "/1", "/2"}

\* Express matches a route path against the request path: a parameter
\* segment matches any one segment, a literal path only itself
matches(routePath, path) ==
  IF routePath = "/:id" THEN path # "/" ELSE routePath = path

\* the router runs the first declared route that matches
dispatch(path) ==
  LET i == CHOOSE n \in 1..Len(GetRoutes) :
             /\ matches(GetRoutes[n].path, path)
             /\ \A m \in 1..(n - 1) : ~matches(GetRoutes[m].path, path)
  IN GetRoutes[i].ep

\* req.params.id of the '/:id' route: the segment; 0 for a segment that is
\* no uuid, as 'stats'
paramsId(path) ==
  CASE path = "/1" -> 1
    [] path = "/2" -> 2
    [] OTHER -> 0

\* GET /:id: getFullDetails, getIncomeSources, getExpenses, getDocuments,
\* getMessages (reads only) and the response
TrGetFullDetails(r) ==
  /\ req[r].ep = "tr_get" /\ req[r].pc = "getFullDetails"
  /\ req' = [req EXCEPT ![r] = Done(@, 200, "")]
  /\ UNCHANGED <<dbVars, script>>

\* UPDATE tax_returns SET ... WHERE id = $n RETURNING *: the rows after it
UpdateTaxReturn(id, new) == {IF t.id = id THEN new ELSE t : t \in tax_returns}

\* a faulty variant of the update, for mutation: the statement carries the
\* ownership condition of the check (WHERE id = $n AND accountant_id = $m),
\* and with no row matched the handler answers 403
TrUpdateIfStillAssigned(r, new) ==
  /\ req[r].arg.id \notin LockedTr(r)
  /\ IF req[r].arg.id \notin TrIds
       THEN /\ tax_returns' = tax_returns
            /\ req' = [req EXCEPT ![r] = errorHandler(@)]
       ELSE IF /\ req[r].user.role = "accountant"
               /\ findById(req[r].arg.id).accountant_id # accountantIdOfUser(req[r].user.id)
         THEN /\ tax_returns' = tax_returns
              /\ req' = [req EXCEPT ![r] = Done(@, 403, "Access denied")]
         ELSE /\ tax_returns' = {IF t.id = req[r].arg.id THEN new ELSE t : t \in tax_returns}
              /\ req' = [req EXCEPT ![r] = [Done(@, 200, "") EXCEPT !.wrote = TRUE]]
  /\ UNCHANGED <<users, customers, accountants, childRows, reviews, nextTrId, fileVars, contact_inquiries, tx, script>>

\* an UPDATE ... RETURNING * of one of the model's methods, and the response:
\* with no row left, new TaxReturn(result.rows[0]) throws and next(error) runs
TrUpdate(r, new) ==
  /\ req[r].arg.id \notin LockedTr(r)
  /\ IF req[r].arg.id \in TrIds
       THEN /\ tax_returns' = UpdateTaxReturn(req[r].arg.id, new)
            /\ req' = [req EXCEPT ![r] = [Done(@, 200, "") EXCEPT !.wrote = TRUE]]
       ELSE /\ tax_returns' = tax_returns
            /\ req' = [req EXCEPT ![r] = errorHandler(@)]
  /\ UNCHANGED <<users, customers, accountants, childRows, reviews, nextTrId, fileVars, contact_inquiries, tx, script>>

\* the order of the lifecycle; cancelled stands beside it
StatusRank(st) ==
  CASE st = "pending" -> 1
    [] st = "in_progress" -> 2
    [] st = "review" -> 3
    [] st = "completed" -> 4
    [] st = "filed" -> 5
    [] OTHER -> 0

\* a faulty variant of updateStatus, for mutation: a status that does not lie
\* further along the lifecycle is not written
updateStatusForwardOnly(t, newStatus) ==
  IF StatusRank(newStatus) > StatusRank(t.status)
    THEN [t EXCEPT !.status = newStatus] ELSE t

\* TaxReturn.updateStatus
updateStatus(t, newStatus) == [t EXCEPT !.status = newStatus]

TrUpdateStatus(r) ==
  /\ req[r].ep = "tr_status" /\ req[r].pc = "updateStatus"
  /\ TrUpdate(r, updateStatus(findById(req[r].arg.id), req[r].arg.status))

\* TaxReturn.updateCalculations
updateCalculations(t, totalIncome) == [t EXCEPT !.total_income = totalIncome]

TrUpdateCalculations(r) ==
  /\ req[r].ep = "tr_calculations" /\ req[r].pc = "updateCalculations"
  /\ TrUpdate(r, updateCalculations(findById(req[r].arg.id), req[r].arg.totalIncome))

\* TaxReturn.markAsFiled
markAsFiled(t, hmrcReference) ==
  [t EXCEPT !.status = "filed", !.filed_date = TRUE, !.hmrc_reference = hmrcReference]

TrMarkAsFiled(r) ==
  /\ req[r].ep = "tr_file" /\ req[r].pc = "markAsFiled"
  /\ TrUpdate(r, markAsFiled(findById(req[r].arg.id), req[r].arg.hmrcReference))

\* PUT /:id/assign: SELECT id FROM accountants WHERE id = $1 AND is_active = true
TrAccountantCheck(r) ==
  /\ req[r].ep = "tr_assign" /\ req[r].pc = "accountantCheck"
  /\ req' = [req EXCEPT ![r] =
               IF \E a \in accountants : a.id = req[r].arg.accountantId /\ a.is_active
                 THEN [@ EXCEPT !.pc = "assignAccountant"]
                 ELSE Done(@, 400, "Invalid or inactive accountant")]
  /\ UNCHANGED <<dbVars, script>>

\* TaxReturn.assignAccountant
assignAccountant(t, accountantId) ==
  [t EXCEPT !.accountant_id = accountantId, !.status = "in_progress"]

TrAssignAccountant(r) ==
  /\ req[r].ep = "tr_assign" /\ req[r].pc = "assignAccountant"
  /\ TrUpdate(r, assignAccountant(findById(req[r].arg.id), req[r].arg.accountantId))

\* POST /:id/income: INSERT INTO income_sources; tax_return_id REFERENCES
\* tax_returns(id), so the insert fails when the return is gone
TrInsertIncome(r) ==
  /\ req[r].ep = "tr_income" /\ req[r].pc = "insertIncome"
  /\ req[r].arg.id \notin LockedTr(r)
  /\ IF req[r].arg.id \in TrIds
       THEN /\ childRows' = [childRows EXCEPT !["income_sources"] = @ \cup {req[r].arg.id}]
            /\ req' = [req EXCEPT ![r] = [Done(@, 201, "") EXCEPT !.wrote = TRUE]]
       ELSE /\ childRows' = childRows
            /\ req' = [req EXCEPT ![r] = errorHandler(@)]
  /\ UNCHANGED <<users, customers, accountants, tax_returns, reviews, nextTrId, fileVars, contact_inquiries, tx, script>>


\* ------------------------------------------- DELETE /api/tax-returns/:id
\* TaxReturn.delete: the statements of its transaction, in order
ChildOrder == <<"messages", "documents", "expenses", "income_sources", "payments">>

\* transaction(): pool.connect() and BEGIN
TxBegin(r) ==
  /\ req[r].ep = "tr_delete" /\ req[r].pc = "txBegin"
  /\ req' = [req EXCEPT ![r] = [@ EXCEPT !.pc = "txChild", !.k = 1]]
  /\ UNCHANGED <<dbVars, script>>

\* DELETE FROM <child table> WHERE tax_return_id = $1, inside the transaction:
\* the rows it deletes stay visible to other sessions until COMMIT, and a
\* DELETE of the same rows by another open transaction waits for this one
TxDeleteChild(r) ==
  /\ req[r].ep = "tr_delete" /\ req[r].pc = "txChild"
  /\ LET t == ChildOrder[req[r].k]
         id == req[r].arg.id
     IN /\ \A o \in Req \ {r} :
             ~(req[o].pc \in {"txChild", "txDeleteReturn", "txCommit", "txRollback"}
               /\ req[o].arg.id = id /\ t \in req[o].pend)
        /\ req' = [req EXCEPT ![r] =
                     [@ EXCEPT !.pend = IF id \in childRows[t] THEN @ \cup {t} ELSE @,
                               !.k = @ + 1,
                               !.pc = IF req[r].k = Len(ChildOrder)
                                        THEN "txDeleteReturn" ELSE "txChild"]]
  /\ UNCHANGED <<dbVars, script>>

\* DELETE FROM tax_returns WHERE id = $1, inside the transaction: refused
\* (foreign-key violation) while a reviews row references the return, since
\* reviews.tax_return_id has no ON DELETE CASCADE
TxDeleteReturn(r) ==
  /\ req[r].ep = "tr_delete" /\ req[r].pc = "txDeleteReturn"
  /\ req[r].arg.id \notin LockedTr(r)
  /\ req' = [req EXCEPT ![r] =
               IF req[r].arg.id \notin TrIds THEN [@ EXCEPT !.pc = "txCommit"]
               ELSE IF req[r].arg.id \in reviews THEN [@ EXCEPT !.pc = "txRollback"]
               ELSE [@ EXCEPT !.pc = "txCommit", !.pendTr = TRUE]]
  /\ UNCHANGED <<dbVars, script>>

\* the tax_returns rows once the transaction of request record q has committed
TaxReturnsAfterCommit(q) ==
  IF q.pendTr THEN {t \in tax_returns : t.id # q.arg.id} ELSE tax_returns

\* a faulty variant of the commit, for mutation: the schema without ON DELETE CASCADE
ChildRowsAfterCommitNoCascade(q) ==
  [t \in ChildTables |->
     IF t \in q.pend THEN childRows[t] \ {q.arg.id} ELSE childRows[t]]

\* the child rows once it has committed: the rows its DELETE statements
\* removed, and the rows ON DELETE CASCADE removes with the return
ChildRowsAfterCommit(q) ==
  [t \in ChildTables |->
     IF t \in q.pend \/ (q.pendTr /\ t \in CascadeTables)
       THEN childRows[t] \ {q.arg.id} ELSE childRows[t]]

\* the documents rows once it has committed; the files they name are not
\* unlinked by TaxReturn.delete
DocumentsAfterCommit(q) ==
  IF "documents" \in q.pend \/ q.pendTr
    THEN {d \in documents : d.tax_return_id # q.arg.id} ELSE documents

\* COMMIT, client.release() and the handler's response
TxCommit(r) ==
  /\ req[r].ep = "tr_delete" /\ req[r].pc = "txCommit"
  /\ tax_returns' = TaxReturnsAfterCommit(req[r])
  /\ childRows' = ChildRowsAfterCommit(req[r])
  /\ documents' = DocumentsAfterCommit(req[r])
  /\ req' = [req EXCEPT ![r] = [Done(@, 200, "") EXCEPT !.wrote = TRUE]]
  /\ UNCHANGED <<users, customers, accountants, reviews, nextTrId, disk, nextFile, contact_inquiries, tx, script>>

\* a faulty variant of the rollback, for mutation: the DELETE statements run on
\* the pool (autocommit) and not on the transaction's client, so ROLLBACK does
\* not bring their rows back
ChildRowsAfterRollbackAutocommit(q) ==
  [t \in ChildTables |->
     IF t \in q.pend THEN childRows[t] \ {q.arg.id} ELSE childRows[t]]

\* the child rows once the transaction of request record q has been rolled
\* back: every DELETE ran on the transaction's client, none of them is kept
ChildRowsAfterRollback(q) == childRows

\* ROLLBACK, client.release(), and the error goes to next(error)
TxRollback(r) ==
  /\ req[r].ep = "tr_delete" /\ req[r].pc = "txRollback"
  /\ childRows' = ChildRowsAfterRollback(req[r])
  /\ req' = [req EXCEPT ![r] = errorHandler([@ EXCEPT !.pend = {}, !.pendTr = FALSE])]
  /\ UNCHANGED <<users, customers, accountants, tax_returns, reviews, nextTrId, fileVars, contact_inquiries, tx, script>>

\* ------------------------------------------------ DELETE /api/users/:id
UserDeleteFind(r) ==
  /\ req[r].ep = "user_delete" /\ req[r].pc = "findUser"
  /\ req' = [req EXCEPT ![r] =
               IF req[r].arg.id \notin UserIds THEN Done(@, 404, "User not found")
               ELSE IF req[r].arg.id = req[r].user.id
                 THEN Done(@, 400, "You cannot delete your own account")
               ELSE [@ EXCEPT !.pc = "softDelete"]]
  /\ UNCHANGED <<dbVars, script>>

\* a faulty variant of User.delete, for mutation: the email is left as it is
softDeleteUnverifyOnly(u) == [u EXCEPT !.is_verified = FALSE]

\* the suffixes appended so far to the emails of the rows 1..n
RECURSIVE SuffixesUpTo(_)
SuffixesUpTo(n) ==
  IF n = 0 THEN 0 ELSE Len(users[n].email.deleted) + SuffixesUpTo(n - 1)

\* EXTRACT(EPOCH FROM NOW()): a time later than that of every earlier delete
Now == SuffixesUpTo(Len(users)) + 1

\* User.delete: UPDATE users SET email = CONCAT(email, '_deleted_', ...),
\* is_verified = false
softDelete(u) == [u EXCEPT !.email.deleted = Append(@, Now), !.is_verified = FALSE]

UserDeleteSoft(r) ==
  /\ req[r].ep = "user_delete" /\ req[r].pc = "softDelete"
  /\ users' = [users EXCEPT ![req[r].arg.id] = softDelete(@)]
  /\ req' = [req EXCEPT ![r] = [Done(@, 200, "") EXCEPT !.wrote = TRUE]]
  /\ UNCHANGED <<customers, accountants, tax_returns, childRows, reviews, nextTrId, fileVars, contact_inquiries, tx, script>>

\* --------------------------------------------------------- /api/admin
\* PUT /api/admin/accountants/:id/status
AdminAccountantStatus(r) ==
  /\ req[r].ep = "admin_accountant_status" /\ req[r].pc = "updateAccountant"
  /\ IF \E a \in accountants : a.id = req[r].arg.accountantId
       THEN /\ accountants' = {IF a.id = req[r].arg.accountantId
                                 THEN [a EXCEPT !.is_active = req[r].arg.isActive]
                                 ELSE a : a \in accountants}
            /\ req' = [req EXCEPT ![r] = [Done(@, 200, "") EXCEPT !.wrote = TRUE]]
       ELSE /\ accountants' = accountants
            /\ req' = [req EXCEPT ![r] = Done(@, 404, "Accountant not found")]
  /\ UNCHANGED <<users, customers, tax_returns, childRows, reviews, nextTrId, fileVars, contact_inquiries, tx, script>>

\* a handler that only reads and answers 200: GET /api/admin/dashboard,
\* GET /api/auth/me
Respond(r) ==
  /\ req[r].ep \in {"admin_dashboard", "auth_me"} /\ req[r].pc = "respond"
  /\ req' = [req EXCEPT ![r] = Done(@, 200, "")]
  /\ UNCHANGED <<dbVars, script>>


\* ------------------------------------------------ POST /api/auth/register
\* User.findByEmail: the id of the row with that email, 0 for null
findByEmail(email) ==
  IF \E u \in UserIds : users[u].email = Email(email)
    THEN CHOOSE u \in UserIds : users[u].email = Email(email)
    ELSE 0

\* a faulty variant of the constraint, for mutation: users.email not UNIQUE
NoUniqueViolation(email) == FALSE

\* the UNIQUE constraint of users.email: an INSERT of this email is refused
UniqueViolation(email) == findByEmail(email) # 0

RegisterFindByEmail(r) ==
  /\ req[r].ep = "register" /\ req[r].pc = "findByEmail"
  /\ req' = [req EXCEPT ![r] =
               IF findByEmail(req[r].arg.email) # 0
                 THEN Done(@, 400, "User with this email already exists")
                 ELSE [@ EXCEPT !.pc = "createUser"]]
  /\ UNCHANGED <<dbVars, script>>

\* the verification token User.create generates for the row with id u
\* (uuidv4: one token per row, no two rows share one); 0 is NULL
VerificationToken(u) == u

\* User.create: INSERT INTO users; users.email is UNIQUE, and on the unique
\* violation it throws Error('Email already exists'), which the handler
\* passes to next(error)
RegisterCreateUser(r) ==
  /\ req[r].ep = "register" /\ req[r].pc = "createUser"
  /\ IF UniqueViolation(req[r].arg.email)
       THEN /\ users' = users
            /\ req' = [req EXCEPT ![r] = errorHandler(@)]
       ELSE /\ users' = Append(users,
                          UserRow(req[r].arg.email, req[r].arg.password,
                                  IF req[r].arg.role = "" THEN "customer" ELSE req[r].arg.role,
                                  FALSE, VerificationToken(Len(users) + 1)))
            /\ req' = [req EXCEPT ![r] =
                         [@ EXCEPT !.pc = "createProfile", !.found = Len(users) + 1,
                                   !.wrote = TRUE]]
  /\ UNCHANGED <<customers, accountants, tax_returns, childRows, reviews, nextTrId, fileVars, contact_inquiries, tx, script>>

\* INSERT INTO customers / accountants (user_id), user.generateToken() and the
\* 201 response
RegisterCreateProfile(r) ==
  /\ req[r].ep = "register" /\ req[r].pc = "createProfile"
  /\ LET u == req[r].found
     IN /\ customers' = IF users[u].role = "customer"
                          THEN customers \cup {[id |-> CustomerId(u), user_id |-> u]}
                          ELSE customers
        /\ accountants' = IF users[u].role = "accountant"
                            THEN accountants \cup
                                   {[id |-> AccountantId(u), user_id |-> u, is_active |-> TRUE]}
                            ELSE accountants
        /\ req' = [req EXCEPT ![r] = [Done(@, 201, "") EXCEPT !.token = u]]
  /\ UNCHANGED <<users, tax_returns, childRows, reviews, nextTrId, fileVars, contact_inquiries, tx, script>>

\* the profile INSERT fails (query() throws, e.g. no connection within
\* connectionTimeoutMillis): next(error), and the users row stays, since the
\* two inserts are not one transaction
RegisterCreateProfileFails(r) ==
  /\ req[r].ep = "register" /\ req[r].pc = "createProfile"
  /\ req' = [req EXCEPT ![r] = errorHandler(@)]
  /\ UNCHANGED <<dbVars, script>>

\* --------------------------------------------------- POST /api/auth/login
LoginFindByEmail(r) ==
  /\ req[r].ep = "login" /\ req[r].pc = "findByEmail"
  /\ req' = [req EXCEPT ![r] =
               IF findByEmail(req[r].arg.email) = 0
                 THEN Done(@, 401, "Invalid email or password")
                 ELSE [@ EXCEPT !.pc = "verifyPassword",
                                !.found = findByEmail(req[r].arg.email)]]
  /\ UNCHANGED <<dbVars, script>>

\* user.verifyPassword: SELECT password_hash ... and bcrypt.compare
LoginVerifyPassword(r) ==
  /\ req[r].ep = "login" /\ req[r].pc = "verifyPassword"
  /\ req' = [req EXCEPT ![r] =
               IF bcryptCompare(req[r].arg.password, users[req[r].found].password_hash)
                 THEN [@ EXCEPT !.pc = "updateLastLogin"]
                 ELSE Done(@, 401, "Invalid email or password")]
  /\ UNCHANGED <<dbVars, script>>

\* user.updateLastLogin(), user.generateToken() and the 200 response
LoginRespond(r) ==
  /\ req[r].ep = "login" /\ req[r].pc = "updateLastLogin"
  /\ req' = [req EXCEPT ![r] = [Done(@, 200, "") EXCEPT !.token = req[r].found]]
  /\ UNCHANGED <<dbVars, script>>

\* -------------------------------------------- POST /api/auth/verify-email
\* User.findByVerificationToken: the id of the row, 0 for null
findByVerificationToken(token) ==
  IF \E u \in UserIds : users[u].verification_token = token
    THEN CHOOSE u \in UserIds : users[u].verification_token = token
    ELSE 0

VerifyEmailFind(r) ==
  /\ req[r].ep = "verify_email" /\ req[r].pc = "findByVerificationToken"
  /\ req' = [req EXCEPT ![r] =
               IF findByVerificationToken(req[r].arg.token) = 0
                 THEN Done(@, 400, "Invalid or expired verification token")
                 ELSE [@ EXCEPT !.pc = "verifyEmail",
                                !.found = findByVerificationToken(req[r].arg.token)]]
  /\ UNCHANGED <<dbVars, script>>

\* a faulty variant of user.verifyEmail(), for mutation: only the token is cleared
verifyEmailTokenOnly(u) == [u EXCEPT !.verification_token = 0]

\* user.verifyEmail(): UPDATE users SET is_verified = true,
\* verification_token = NULL
verifyEmail(u) == [u EXCEPT !.is_verified = TRUE, !.verification_token = 0]

VerifyEmailUpdate(r) ==
  /\ req[r].ep = "verify_email" /\ req[r].pc = "verifyEmail"
  /\ users' = [users EXCEPT ![req[r].found] = verifyEmail(@)]
  /\ req' = [req EXCEPT ![r] = [Done(@, 200, "") EXCEPT !.wrote = TRUE]]
  /\ UNCHANGED <<customers, accountants, tax_returns, childRows, reviews, nextTrId, fileVars, contact_inquiries, tx, script>>


\* ------------------------------------------------------- the seeded store
\* scripts/seed.js: an admin, an accountant and a customer, all verified, the
\* two profiles, and one tax return of the customer assigned to the accountant
SeedUsers ==
  << UserRow("admin@taxpro.com", "Admin123!", "admin", TRUE, 0),
     UserRow("accountant@taxpro.com", "Accountant123!", "accountant", TRUE, 0),
     UserRow("customer@taxpro.com", "Customer123!", "customer", TRUE, 0) >>

SeedAdmin == 1
SeedAccountant == 2
SeedCustomer == 3

SeedCustomers == {[id |-> CustomerId(SeedCustomer), user_id |-> SeedCustomer]}
SeedAccountants ==
  {[id |-> AccountantId(SeedAccountant), user_id |-> SeedAccountant, is_active |-> TRUE]}
SeedReturns ==
  {TaxReturnRow(1, CustomerId(SeedCustomer), AccountantId(SeedAccountant),
                "2023-24", "in_progress")}

\* users registered after the seed: a second customer and a second accountant
SecondCustomer == 4
SecondAccountant == 5
SecondCustomerRow(verified) ==
  UserRow("second@x.com", "Passw0rd1", "customer", verified,
          IF verified THEN 0 ELSE VerificationToken(SecondCustomer))
SecondAccountantRow == UserRow("books@x.com", "Passw0rd2", "accountant", TRUE, 0)

\* ------------------------------------------------------------ /api/uploads
\* path.extname(file.originalname).toLowerCase().substring(1)
fileExtension(name) ==
  CASE name = "a.pdf" -> "pdf"
    [] name = "b.PNG" -> "png"
    [] name = "c.exe" -> "exe"
    [] OTHER -> ""

allowedTypes == {"pdf", "jpg", "jpeg", "png", "doc", "docx", "xls", "xlsx"}

\* upload.array with fileFilter: the position of the first file of the request
\* the filter fails on, Len + 1 when it accepts every file
FirstDisallowed(names) ==
  IF \E i \in 1..Len(names) : fileExtension(names[i]) \notin allowedTypes
    THEN CHOOSE i \in 1..Len(names) :
           /\ fileExtension(names[i]) \notin allowedTypes
           /\ \A j \in 1..(i - 1) : fileExtension(names[j]) \in allowedTypes
    ELSE Len(names) + 1

\* the fresh paths diskStorage gives to n files (a time stamp and a random
\* number: no two files get the same)
NewPaths(n) == [i \in 1..n |-> nextFile + i - 1]

Range(seq) == {seq[i] : i \in 1..Len(seq)}

\* a faulty variant of the upload middleware, for mutation: a failed request
\* leaves the files written before the failure
RemovedOnAbortNone(stored) == {}

\* the files multer removes when it fails a request: those it has written for it
RemovedOnAbort(stored) == Range(stored)

\* upload.array('documents', 5): the files are filtered and written to the
\* upload directory in their order; when the filter fails on a file, multer
\* removes the files it has written for the request and passes the error on,
\* and the route's handler does not run
UploadMulter(r) ==
  /\ req[r].ep = "doc_upload" /\ req[r].pc = "multer"
  /\ LET names == req[r].arg.files
         bad == FirstDisallowed(names)
         stored == NewPaths(bad - 1)
     IN /\ nextFile' = nextFile + Len(stored)
        /\ IF bad <= Len(names)
             THEN /\ disk' = (disk \cup Range(stored)) \ RemovedOnAbort(stored)
                  /\ req' = [req EXCEPT ![r] =
                               errorHandler([@ EXCEPT !.ran = FALSE, !.files = stored])]
             ELSE /\ disk' = disk \cup Range(stored)
                  /\ req' = [req EXCEPT ![r] = [@ EXCEPT !.files = stored,
                                                         !.pc = "taxReturnCheck"]]
  /\ UNCHANGED <<users, customers, accountants, tax_returns, childRows, reviews,
                 nextTrId, documents, contact_inquiries, tx, script>>

\* SELECT id FROM customers WHERE user_id = $1; rows[0]?.id
customerIdOfUser(u) ==
  IF \E c \in customers : c.user_id = u
    THEN (CHOOSE c \in customers : c.user_id = u).id
    ELSE Undefined

\* hasAccess of the upload and the download route: an admin, the customer whose
\* profile the return names, the accountant whose profile is assigned to it
hasAccess(user, row) ==
  CASE user.role = "admin" -> TRUE
    [] user.role = "customer" -> customerIdOfUser(user.id) = row.customer_id
    [] user.role = "accountant" -> accountantIdOfUser(user.id) = row.accountant_id
    [] OTHER -> FALSE

\* the handler leaves through its clean-up loop with the answer (status, err)
ToCleanup(q, status, err) == [q EXCEPT !.pc = "cleanup", !.status = status, !.error = err]

\* SELECT tr.id, tr.customer_id, tr.accountant_id FROM tax_returns tr WHERE
\* tr.id = $1; an admin's access is settled without another statement
UploadTaxReturnCheck(r) ==
  /\ req[r].ep = "doc_upload" /\ req[r].pc = "taxReturnCheck"
  /\ LET row == findById(req[r].arg.id)
     IN req' = [req EXCEPT ![r] =
                  IF row = NoRow THEN ToCleanup(@, 404, "Tax return not found")
                  ELSE IF req[r].user.role # "admin"
                    THEN [@ EXCEPT !.snap = row, !.pc = "accessCheck"]
                  ELSE IF Len(req[r].files) = 0 THEN Done(@, 400, "No files uploaded")
                  ELSE [@ EXCEPT !.snap = row, !.pc = "insertDocument", !.k = 1]]
  /\ UNCHANGED <<dbVars, script>>

\* customerCheck / accountantCheck and the branch on hasAccess
UploadAccessCheck(r) ==
  /\ req[r].ep = "doc_upload" /\ req[r].pc = "accessCheck"
  /\ req' = [req EXCEPT ![r] =
               IF ~hasAccess(req[r].user, req[r].snap) THEN ToCleanup(@, 403, "Access denied")
               ELSE IF Len(req[r].files) = 0 THEN Done(@, 400, "No files uploaded")
               ELSE [@ EXCEPT !.pc = "insertDocument", !.k = 1]]
  /\ UNCHANGED <<dbVars, script>>

\* INSERT INTO documents ... RETURNING * for the k-th file (one statement of
\* its own, no transaction); it fails when documents.tax_return_id no longer
\* references a tax_returns row
UploadInsertDocument(r) ==
  /\ req[r].ep = "doc_upload" /\ req[r].pc = "insertDocument"
  /\ req[r].snap.id \notin LockedTr(r)
  /\ LET path == req[r].files[req[r].k]
     IN IF req[r].snap.id \notin TrIds
          THEN /\ req' = [req EXCEPT ![r] = ToCleanup(@, 0, "error")]
               /\ UNCHANGED <<documents, childRows>>
          ELSE /\ documents' = documents \cup
                     {DocRow(path, req[r].snap.id, req[r].user.id, path)}
               /\ childRows' = [childRows EXCEPT !["documents"] = @ \cup {req[r].snap.id}]
               /\ req' = [req EXCEPT ![r] =
                            IF req[r].k = Len(req[r].files)
                              THEN [Done(@, 201, "") EXCEPT !.wrote = TRUE]
                              ELSE [@ EXCEPT !.k = @ + 1, !.wrote = TRUE]]
  /\ UNCHANGED <<users, customers, accountants, tax_returns, reviews, nextTrId,
                 disk, nextFile, contact_inquiries, tx, script>>

\* the statement fails in the database (connection lost, statement timeout):
\* control passes to the catch block
UploadInsertDocumentFails(r) ==
  /\ req[r].ep = "doc_upload" /\ req[r].pc = "insertDocument"
  /\ req' = [req EXCEPT ![r] = ToCleanup(@, 0, "error")]
  /\ UNCHANGED <<dbVars, script>>

\* a faulty variant of the clean-up loop, for mutation: it stops after the
\* first file
RemovableFirstOnly(files) == IF files = <<>> THEN {} ELSE {files[1]}

\* the files the clean-up loop calls fs.unlink on: every file of req.files
Removable(files) == Range(files)

\* for (const file of req.files) await fs.unlink(file.path).catch(() => {}):
\* each unlink removes its file or fails, a failure is swallowed; then the
\* response, or next(error) from the catch block
UploadCleanup(r) ==
  /\ req[r].ep = "doc_upload" /\ req[r].pc = "cleanup"
  /\ \E failed \in SUBSET Removable(req[r].files) :
       /\ disk' = disk \ (Removable(req[r].files) \ failed)
       /\ req' = [req EXCEPT ![r] =
                    LET q == [@ EXCEPT !.unlinkErr = (failed # {})]
                    IN IF q.status = 0 THEN errorHandler(q) ELSE Done(q, q.status, q.error)]
  /\ UNCHANGED <<users, customers, accountants, tax_returns, childRows, reviews,
                 nextTrId, documents, nextFile, contact_inquiries, tx, script>>

\* SELECT d.*, tr.customer_id, tr.accountant_id FROM documents d JOIN
\* tax_returns tr ON d.tax_return_id = tr.id WHERE d.id = $1
findDocument(id) ==
  IF \E d \in documents : d.id = id /\ d.tax_return_id \in TrIds
    THEN LET d == CHOOSE x \in documents : x.id = id
             tr == findById(d.tax_return_id)
         IN [id |-> d.id, tax_return_id |-> d.tax_return_id,
             uploaded_by |-> d.uploaded_by, file_path |-> d.file_path,
             customer_id |-> tr.customer_id, accountant_id |-> tr.accountant_id]
    ELSE NoDoc

\* the part of the access check each route settles without another statement:
\* "yes", "no", or "check" when it first reads the caller's profile row
AccessWithoutQuery(ep, user, doc) ==
  IF ep = "doc_get"
    THEN IF user.role = "admin" THEN "yes" ELSE "check"
    ELSE IF user.role = "admin" \/ doc.uploaded_by = user.id THEN "yes"
         ELSE IF user.role = "accountant" THEN "check"
         ELSE "no"

\* the step that follows the access check of a documents route
DocStep(ep) == IF ep = "doc_get" THEN "fsAccess" ELSE "unlink"

\* GET and DELETE /api/uploads/documents/:id: the document with its return
DocFind(r) ==
  /\ req[r].ep \in {"doc_get", "doc_delete"} /\ req[r].pc = "findDocument"
  /\ LET doc == findDocument(req[r].arg.id)
         a == AccessWithoutQuery(req[r].ep, req[r].user, doc)
     IN req' = [req EXCEPT ![r] =
                  IF doc = NoDoc THEN Done(@, 404, "Document not found")
                  ELSE IF a = "no" THEN Done([@ EXCEPT !.doc = doc], 403, "Access denied")
                  ELSE [@ EXCEPT !.doc = doc,
                                 !.pc = IF a = "yes" THEN DocStep(req[r].ep)
                                        ELSE "docAccessCheck"]]
  /\ UNCHANGED <<dbVars, script>>

\* a faulty variant of the comparison, for mutation: the accountant's profile
\* row only has to exist
AccountantAssignedAny(user, doc) == accountantIdOfUser(user.id) # Undefined

\* accountantCheck.rows[0]?.id === document.accountant_id
AccountantAssigned(user, doc) == accountantIdOfUser(user.id) = doc.accountant_id

\* customerCheck / accountantCheck and the branch on hasAccess
DocAccessCheck(r) ==
  /\ req[r].ep \in {"doc_get", "doc_delete"} /\ req[r].pc = "docAccessCheck"
  /\ LET ok == IF req[r].ep = "doc_get" THEN hasAccess(req[r].user, req[r].doc)
               ELSE AccountantAssigned(req[r].user, req[r].doc)
     IN req' = [req EXCEPT ![r] =
                  IF ok THEN [@ EXCEPT !.pc = DocStep(req[r].ep)]
                  ELSE Done(@, 403, "Access denied")]
  /\ UNCHANGED <<dbVars, script>>

\* fs.access(document.file_path) and res.sendFile
DocFsAccess(r) ==
  /\ req[r].ep = "doc_get" /\ req[r].pc = "fsAccess"
  /\ req' = [req EXCEPT ![r] =
               IF req[r].doc.file_path \in disk THEN Done(@, 200, "")
               ELSE Done(@, 404, "File not found on server")]
  /\ UNCHANGED <<dbVars, script>>

\* fs.unlink(document.file_path) in try/catch: the file is removed, or the
\* unlink fails (always when the file is not there), the error is logged and
\* the handler goes on
DocUnlink(r) ==
  /\ req[r].ep = "doc_delete" /\ req[r].pc = "unlink"
  /\ \/ /\ req[r].doc.file_path \in disk
        /\ disk' = disk \ {req[r].doc.file_path}
        /\ req' = [req EXCEPT ![r] = [@ EXCEPT !.pc = "deleteDocument", !.wrote = TRUE]]
     \/ /\ disk' = disk
        /\ req' = [req EXCEPT ![r] = [@ EXCEPT !.pc = "deleteDocument", !.unlinkErr = TRUE]]
  /\ UNCHANGED <<users, customers, accountants, tax_returns, childRows, reviews,
                 nextTrId, documents, nextFile, contact_inquiries, tx, script>>

\* DELETE FROM documents WHERE id = $1 and the response
DocDeleteRow(r) ==
  /\ req[r].ep = "doc_delete" /\ req[r].pc = "deleteDocument"
  /\ LET rest == {d \in documents : d.id # req[r].arg.id}
     IN /\ documents' = rest
        /\ childRows' = [childRows EXCEPT !["documents"] = {d.tax_return_id : d \in rest}]
  /\ req' = [req EXCEPT ![r] = [Done(@, 200, "") EXCEPT !.wrote = TRUE]]
  /\ UNCHANGED <<users, customers, accountants, tax_returns, reviews, nextTrId,
                 disk, nextFile, contact_inquiries, tx, script>>

\* ------------------------------------------ POST /api/auth/forgot-password
\* the body of an answer with success: true
Success(q, msg) == [Done(q, 200, "") EXCEPT !.message = msg]

\* User.findByEmail and, with no user found, the answer
ForgotFindByEmail(r) ==
  /\ req[r].ep = "forgot_password" /\ req[r].pc = "findByEmail"
  /\ req' = [req EXCEPT ![r] =
               IF findByEmail(req[r].arg.email) = 0
                 THEN Success(@, "If an account with that email exists, we have sent a password reset link.")
                 ELSE [@ EXCEPT !.pc = "setResetPasswordToken",
                                !.found = findByEmail(req[r].arg.email)]]
  /\ UNCHANGED <<dbVars, script>>

\* the message of the answer once the token is set
ResetSentMessage == "Password reset link sent to your email"

\* user.setResetPasswordToken(): UPDATE users SET reset_password_token = a
\* fresh uuid (the n-th token of the row), and the answer; the token is part
\* of the body when NODE_ENV is development
ForgotSetResetToken(r) ==
  /\ req[r].ep = "forgot_password" /\ req[r].pc = "setResetPasswordToken"
  /\ LET u == req[r].found
         resetToken == users[u].reset_password_token + 1
     IN /\ users' = [users EXCEPT ![u].reset_password_token = resetToken]
        /\ \E development \in BOOLEAN :
             req' = [req EXCEPT ![r] =
                       [Success(@, ResetSentMessage) EXCEPT
                          !.wrote = TRUE,
                          !.resetToken = IF development THEN resetToken ELSE 0]]
  /\ UNCHANGED <<customers, accountants, tax_returns, childRows, reviews, nextTrId,
                 fileVars, contact_inquiries, tx, script>>

\* ------------------------------------------------ PUT /api/users/profile
\* User.findById(req.user.id)
ProfileFind(r) ==
  /\ req[r].ep = "user_profile" /\ req[r].pc = "findUser"
  /\ req' = [req EXCEPT ![r] =
               IF req[r].user.id \notin UserIds THEN Done(@, 404, "User not found")
               ELSE [@ EXCEPT !.pc = "update"]]
  /\ UNCHANGED <<dbVars, script>>

\* updateData of the route: first_name from req.body.firstName (last_name and
\* phone likewise), undefined values removed; no other field of the body is read
updateData(arg) ==
  IF arg.firstName = "" THEN <<>> ELSE [first_name |-> arg.firstName]

allowedFields == {"first_name", "last_name", "phone"}

\* user.update(updateData): UPDATE users SET <the allowed fields of updateData>
update(u, data) ==
  [f \in DOMAIN u |->
     IF f \in DOMAIN data /\ f \in allowedFields THEN data[f] ELSE u[f]]

\* user.update, updatedUser.getProfile() and the answer
ProfileUpdate(r) ==
  /\ req[r].ep = "user_profile" /\ req[r].pc = "update"
  /\ users' = [users EXCEPT ![req[r].user.id] = update(@, updateData(req[r].arg))]
  /\ req' = [req EXCEPT ![r] =
               [Done(@, 200, "") EXCEPT !.wrote = updateData(req[r].arg) # <<>>]]
  /\ UNCHANGED <<customers, accountants, tax_returns, childRows, reviews, nextTrId,
                 fileVars, contact_inquiries, tx, script>>

\* ------------------------------------------------------- contact inquiries
\* POST /api/contact: INSERT INTO contact_inquiries; status defaults to 'new',
\* assigned_to to NULL (0: users' ids start at 1); ids are fresh uuids (the
\* n-th inquiry)
ContactInsert(r) ==
  /\ req[r].ep = "contact_create" /\ req[r].pc = "insertInquiry"
  /\ contact_inquiries' = contact_inquiries \cup
       {[id |-> Cardinality(contact_inquiries) + 1, status |-> "new", assigned_to |-> 0]}
  /\ req' = [req EXCEPT ![r] = [Done(@, 201, "") EXCEPT !.wrote = TRUE]]
  /\ UNCHANGED <<users, customers, accountants, tax_returns, childRows, reviews, nextTrId,
                 fileVars, tx, script>>

\* PUT /api/contact/inquiries/:id/status: UPDATE ... SET status = $1 WHERE id = $2
ContactUpdateStatus(r) ==
  /\ req[r].ep = "contact_status" /\ req[r].pc = "updateInquiry"
  /\ contact_inquiries' =
       {IF i.id = req[r].arg.id THEN [i EXCEPT !.status = req[r].arg.status] ELSE i :
          i \in contact_inquiries}
  /\ req' = [req EXCEPT ![r] =
               IF \E i \in contact_inquiries : i.id = req[r].arg.id
                 THEN [Done(@, 200, "") EXCEPT !.wrote = TRUE]
                 ELSE Done(@, 404, "Contact inquiry not found")]
  /\ UNCHANGED <<users, customers, accountants, tax_returns, childRows, reviews, nextTrId,
                 fileVars, tx, script>>

\* SELECT id FROM users WHERE id = $1 AND role = 'admin'
userCheck(assignedTo) == {u \in UserIds : u = assignedTo /\ users[u].role = "admin"}

\* PUT /api/contact/inquiries/:id/assign, the check of the assigned user
ContactUserCheck(r) ==
  /\ req[r].ep = "contact_assign" /\ req[r].pc = "userCheck"
  /\ req' = [req EXCEPT ![r] =
               IF userCheck(req[r].arg.assignedTo) = {}
                 THEN Done(@, 400, "Invalid admin user ID")
                 ELSE [@ EXCEPT !.pc = "assignInquiry"]]
  /\ UNCHANGED <<dbVars, script>>

\* a faulty variant of assignInquiry, for mutation: status = 'in_progress'
\* whatever the status was
assignInquiryAlwaysInProgress(i, assignedTo) ==
  [i EXCEPT !.assigned_to = assignedTo, !.status = "in_progress"]

\* SET assigned_to = $1,
\*     status = CASE WHEN status = 'new' THEN 'in_progress' ELSE status END
assignInquiry(i, assignedTo) ==
  [i EXCEPT !.assigned_to = assignedTo,
            !.status = IF @ = "new" THEN "in_progress" ELSE @]

\* PUT /api/contact/inquiries/:id/assign, the UPDATE and the answer
ContactAssign(r) ==
  /\ req[r].ep = "contact_assign" /\ req[r].pc = "assignInquiry"
  /\ contact_inquiries' =
       {IF i.id = req[r].arg.id THEN assignInquiry(i, req[r].arg.assignedTo) ELSE i :
          i \in contact_inquiries}
  /\ req' = [req EXCEPT ![r] =
               IF \E i \in contact_inquiries : i.id = req[r].arg.id
                 THEN [Done(@, 200, "") EXCEPT !.wrote = TRUE]
                 ELSE Done(@, 404, "Contact inquiry not found")]
  /\ UNCHANGED <<users, customers, accountants, tax_returns, childRows, reviews, nextTrId,
                 fileVars, tx, script>>

NoScript == [step |-> 0, log |-> <<>>, token |-> 0, verify |-> FALSE,
             email |-> "", password |-> "", role |-> ""]

\* a caller that is not in a call of the transaction helper
NoCall == [pc |-> "idle", statements |-> 0, held |-> FALSE, issued |-> <<>>,
           released |-> 0, caught |-> "", outcome |-> ""]

\* no document has been uploaded, no inquiry submitted and no transaction begun
NoFiles ==
  /\ documents = {} /\ disk = {} /\ nextFile = 1 /\ contact_inquiries = {}
  /\ tx = [r \in Req |-> NoCall]

\* child rows of the seeded return: rows of the tables in present
ChildRowsOf(present) == [t \in ChildTables |-> IF t \in present THEN {1} ELSE {}]

\* ------------------------------------------------------------ request inputs
WithId(i) == [NoArg EXCEPT !.id = i]

\* the files of an upload request, by their original names
FileNames == {"a.pdf", "b.PNG", "c.exe"}
UploadBatches == UNION {[1..n -> FileNames] : n \in 0..MaxFiles}

\* the parameters the clients of the model send to a route
InputsOf(ep) ==
  CASE ep = "tr_create" -> {[NoArg EXCEPT !.taxYear = y] : y \in TaxYears \cup {"2023"}}
    [] ep \in {"tr_get", "tr_income", "tr_delete"} -> {WithId(i) : i \in 1..MaxReturns}
    [] ep = "tr_status" ->
         {[WithId(i) EXCEPT !.status = st] : i \in 1..MaxReturns, st \in {"review", "archived"}}
    [] ep = "tr_calculations" ->
         {[WithId(i) EXCEPT !.totalIncome = "50000"] : i \in 1..MaxReturns}
    [] ep = "tr_file" ->
         {[WithId(i) EXCEPT !.hmrcReference = "HMRC-1"] : i \in 1..MaxReturns}
    [] ep = "tr_assign" ->
         {[WithId(i) EXCEPT !.accountantId = a] :
            i \in 1..MaxReturns,
            a \in {AccountantId(SeedAccountant), AccountantId(SecondAccountant)}}
    [] ep = "user_delete" -> {WithId(i) : i \in {SeedAdmin, SecondCustomer, MaxUsers + 1}}
    [] ep = "admin_accountant_status" ->
         {[NoArg EXCEPT !.accountantId = AccountantId(SeedAccountant), !.isActive = b] :
            b \in BOOLEAN}
    [] ep = "register" ->
         {[NoArg EXCEPT !.email = e, !.password = p, !.role = ro] :
            e \in {"new@x.com", "New@X.com", "customer@taxpro.com"},
            p \in {"Passw0rd1", "short"},
            ro \in {"", "accountant", "admin"}}
    [] ep = "login" ->
         {[NoArg EXCEPT !.email = e, !.password = p] :
            e \in {"new@x.com", "Customer@TaxPro.com"},
            p \in {"Passw0rd1", "Customer123!"}}
    [] ep = "verify_email" -> {[NoArg EXCEPT !.token = t] : t \in 0..MaxUsers}
    [] ep = "forgot_password" ->
         {[NoArg EXCEPT !.email = e] :
            e \in {"customer@taxpro.com", "Customer@TaxPro.com", "accountant@taxpro.com",
                   "new@x.com", "not-an-email"}}
    [] ep = "doc_upload" ->
         {[WithId(i) EXCEPT !.files = f] : i \in {1, MaxReturns}, f \in UploadBatches}
    [] ep \in {"doc_get", "doc_delete"} -> {WithId(i) : i \in 1..MaxStored}
    [] ep = "contact_create" -> {[NoArg EXCEPT !.email = "new@x.com"]}
    [] ep = "contact_status" ->
         {[WithId(i) EXCEPT !.status = st] :
            i \in 1..MaxInquiries, st \in InquiryStatuses \cup {"archived"}}
    [] ep = "contact_assign" ->
         {[WithId(i) EXCEPT !.assignedTo = a] :
            i \in 1..MaxInquiries, a \in {0, SeedAdmin, SeedAccountant, MaxUsers + 1}}
    [] OTHER -> {NoArg}

\* resources a request may come to need are there: a fresh tax_returns id for
\* every POST /api/tax-returns in flight, a users row for every registration
\* in flight, and a row is soft-deleted MaxDeleted times at most
InFlight(ep) == {r \in Req : req[r].ep = ep /\ req[r].pc \notin {"idle", "done"}}

WithinBounds(ep, arg) ==
  CASE ep = "tr_create" -> nextTrId + Cardinality(InFlight(ep)) <= MaxReturns
    [] ep = "register" -> Len(users) + Cardinality(InFlight(ep)) < MaxUsers
    [] ep = "user_delete" ->
         /\ InFlight(ep) = {}
         /\ arg.id \in UserIds => Len(users[arg.id].email.deleted) < MaxDeleted
    [] ep = "doc_upload" ->
         /\ InFlight(ep) = {}
         /\ nextFile + Len(arg.files) - 1 <= MaxStored
    [] ep = "forgot_password" ->
         \A u \in UserIds :
           users[u].reset_password_token + Cardinality(InFlight(ep)) < MaxResets
    [] ep = "contact_create" ->
         Cardinality(contact_inquiries) + Cardinality(InFlight(ep)) < MaxInquiries
    [] OTHER -> TRUE

\* a client sends a request of one of the routes eps with one of the headers;
\* the request is served in the lowest free slot
Client(r, eps, headers) ==
  \E ep \in eps, hdr \in headers :
    \E arg \in InputsOf(ep) :
      /\ \A o \in 1..(r - 1) : req[o].pc # "idle"
      /\ WithinBounds(ep, arg)
      /\ Request(r, ep, hdr, arg)


\* ------------------------------------------- specification: tax returns
\* The seeded customer creates returns and adds income while the admin deletes returns,
\* MaxReq requests in flight.
Init ==
  /\ users = SeedUsers
  /\ customers = SeedCustomers
  /\ accountants = SeedAccountants
  /\ tax_returns = SeedReturns
  /\ \E present \in {{}, {"messages", "payments"}} : childRows = ChildRowsOf(present)
  /\ NoFiles
  /\ reviews \in {{}, {1}}
  /\ nextTrId = 2
  /\ req = [r \in Req |-> Idle]
  /\ script = NoScript

Next ==
  \E r \in Req :
    \/ Client(r, {"tr_create", "tr_income"}, {GoodToken(SeedCustomer)})
    \/ Client(r, {"tr_delete"}, {GoodToken(SeedAdmin)})
    \/ TrCreateGetCustomerId(r)
    \/ TrCreateCheckExisting(r)
    \/ TrCreateInsert(r)
    \/ TrFindById(r)
    \/ TrOwnership(r)
    \/ TrInsertIncome(r)
    \/ TxBegin(r)
    \/ TxDeleteChild(r)
    \/ TxDeleteReturn(r)
    \/ TxCommit(r)
    \/ TxRollback(r)
    \/ Reset(r)

Spec == Init /\ [][Next]_vars


\* C4: at most one tax_returns row exists for a (customer_id, tax_year) pair,
\* also when requests run concurrently.
C4_OneReturnPerCustomerYear ==
  \A t1, t2 \in tax_returns :
    (t1.customer_id = t2.customer_id /\ t1.tax_year = t2.tax_year) => t1.id = t2.id

\* the returns of the customer profile of user u for a tax year
ReturnsOf(u, year) ==
  {t \in tax_returns : t.customer_id = CustomerId(u) /\ t.tax_year = year}

\* C5: when the handler of POST /api/tax-returns looks up the returns of a
\* customer who already has one for the tax year, it answers 400 "Tax return
\* for this year already exists", and the tax_returns rows stay as they are.
C5_DuplicateYearRejected ==
  [][\A r \in Req :
       (/\ req[r].ep = "tr_create" /\ req[r].pc = "findByCustomerId"
        /\ req'[r] # req[r]
        /\ ReturnsOf(req[r].user.id, req[r].arg.taxYear) # {})
       => /\ req'[r].pc = "done"
          /\ req'[r].status = 400
          /\ req'[r].error = "Tax return for this year already exists"
          /\ ~req'[r].wrote
          /\ tax_returns' = tax_returns]_vars

C5_Witness ==
  \E r \in Req :
    /\ req[r].ep = "tr_create" /\ req[r].pc = "done"
    /\ req[r].status = 400
    /\ req[r].error = "Tax return for this year already exists"
    /\ ReturnsOf(req[r].user.id, req[r].arg.taxYear) # {}

\* C10: once DELETE /api/tax-returns/:id has answered success, the tax_returns
\* row is gone and no income_sources, expenses, documents, messages or payments
\* row carries that tax_return_id.
C10_DeleteRemovesReturnAndChildren ==
  \A r \in Req :
    (req[r].ep = "tr_delete" /\ req[r].pc = "done" /\ req[r].status = 200)
    => /\ req[r].arg.id \notin TrIds
       /\ \A t \in ChildTables : req[r].arg.id \notin childRows[t]

C10_Witness ==
  \E r \in Req :
    /\ req[r].ep = "tr_delete" /\ req[r].pc = "done" /\ req[r].status = 200
    /\ req[r].pendTr /\ req[r].pend # {}
    /\ req[r].arg.id \notin TrIds


\* ------------------------------------------- specification: registration
\* Clients register, log in and verify addresses, MaxReq requests in flight.
InitReg ==
  /\ users = SeedUsers
  /\ customers = SeedCustomers
  /\ accountants = SeedAccountants
  /\ tax_returns = SeedReturns
  /\ childRows = ChildRowsOf({})
  /\ NoFiles
  /\ reviews = {}
  /\ nextTrId = 2
  /\ req = [r \in Req |-> Idle]
  /\ script = NoScript

NextReg ==
  \E r \in Req :
    \/ Client(r, {"register", "login", "verify_email"}, {NoToken})
    \/ RegisterFindByEmail(r)
    \/ RegisterCreateUser(r)
    \/ RegisterCreateProfile(r)
    \/ RegisterCreateProfileFails(r)
    \/ LoginFindByEmail(r)
    \/ LoginVerifyPassword(r)
    \/ LoginRespond(r)
    \/ VerifyEmailFind(r)
    \/ VerifyEmailUpdate(r)
    \/ Reset(r)

SpecReg == InitReg /\ [][NextReg]_vars


\* C2: no two users rows carry the same email, whatever the interleaving of
\* the registrations.
C2_EmailUnique ==
  \A u1, u2 \in UserIds : users[u1].email = users[u2].email => u1 = u2

\* two registrations of one address were both past the handler's look-up when
\* the first of them inserted its row
C2_Witness ==
  \E r1, r2 \in Req :
    /\ r1 # r2
    /\ req[r1].ep = "register" /\ req[r2].ep = "register"
    /\ req[r1].arg.email = req[r2].arg.email
    /\ req[r1].wrote
    /\ req[r2].pc = "createUser"
    /\ findByEmail(req[r1].arg.email) = req[r1].found

\* C3: every registration that creates no user because the email is taken
\* answers 400 "User with this email already exists", whether the row was
\* there before the request or was inserted between its look-up and its insert.
C3_TakenEmailAnswers400 ==
  \A r \in Req :
    (/\ req[r].ep = "register" /\ req[r].pc = "done"
     /\ req[r].ran /\ ~req[r].wrote
     /\ findByEmail(req[r].arg.email) # 0)
    => /\ req[r].status = 400
       /\ req[r].error = "User with this email already exists"


\* ----------------------------------------- specification: authentication
\* Clients present every kind of Authorization header to GET /api/auth/me and
\* DELETE /api/users/:id while addresses are verified and users soft-deleted.
InitAuth ==
  /\ users = Append(SeedUsers, SecondCustomerRow(FALSE))
  /\ customers = SeedCustomers \cup
                   {[id |-> CustomerId(SecondCustomer), user_id |-> SecondCustomer]}
  /\ accountants = SeedAccountants
  /\ tax_returns = SeedReturns
  /\ childRows = ChildRowsOf({})
  /\ NoFiles
  /\ reviews = {}
  /\ nextTrId = 2
  /\ req = [r \in Req |-> Idle]
  /\ script = NoScript

\* no header, and tokens naming the admin, the two customers and no user
AuthHeaders ==
  {NoToken} \cup
  UNION {{GoodToken(u), ExpiredToken(u), TamperedToken(u), TamperedExpiredToken(u)} :
           u \in {SeedAdmin, SeedCustomer, SecondCustomer, MaxUsers + 1}}

NextAuth ==
  \E r \in Req :
    \/ Client(r, {"auth_me"}, AuthHeaders)
    \/ Client(r, {"user_delete"}, {GoodToken(SeedAdmin), ExpiredToken(SeedAdmin)})
    \/ Client(r, {"verify_email"}, {NoToken})
    \/ Respond(r)
    \/ UserDeleteFind(r)
    \/ UserDeleteSoft(r)
    \/ VerifyEmailFind(r)
    \/ VerifyEmailUpdate(r)
    \/ Reset(r)

SpecAuth == InitAuth /\ [][NextAuth]_vars

\* C6: authenticate answers a token past its expiry with 401 of the "expired"
\* kind and a token whose signature does not verify with 401 of the "invalid"
\* kind; in both cases the handler is not invoked and req.user is not set.
C6_ExpiredAndInvalidRejected ==
  \A r \in Req :
    (req[r].pc # "idle" /\ req[r].ep \notin PublicEps)
    => /\ (req[r].hdr.sig = "good" /\ req[r].hdr.expired)
            => /\ req[r].pc = "done" /\ req[r].status = 401
               /\ req[r].error = "Access denied. Token expired."
               /\ ~req[r].ran /\ req[r].user = NoUser
       /\ req[r].hdr.sig = "bad"
            => /\ req[r].pc = "done" /\ req[r].status = 401
               /\ req[r].error = "Access denied. Invalid token."
               /\ ~req[r].ran /\ req[r].user = NoUser

C6_Witness ==
  \E r1, r2 \in Req :
    /\ req[r1].pc = "done" /\ req[r1].hdr = ExpiredToken(SeedCustomer)
    /\ req[r1].error = "Access denied. Token expired."
    /\ req[r2].pc = "done" /\ req[r2].hdr = TamperedExpiredToken(SeedCustomer)
    /\ req[r2].error = "Access denied. Invalid token."

\* C7: authenticate fails closed.  It calls next() only for a bearer token
\* that verifies and names an existing, verified user, and then req.user is
\* that stored user's id and role; for a missing header, a token that does
\* not verify, an absent user or an unverified one it answers 401, sets no
\* req.user, and the handler never runs.
C7_AuthenticateFailsClosed ==
  [][\A r \in Req :
       (req[r].pc = "idle" /\ req'[r].pc # "idle" /\ req'[r].ep \notin PublicEps)
       => LET q == req'[r]
              ok == /\ q.hdr.sig = "good" /\ ~q.hdr.expired
                    /\ q.hdr.sub \in UserIds
                    /\ users[q.hdr.sub].is_verified
          IN /\ ok => q.user = [id |-> q.hdr.sub, role |-> users[q.hdr.sub].role]
             /\ ~ok => /\ q.pc = "done" /\ q.status = 401
                       /\ ~q.ran /\ q.user = NoUser
             /\ q.ran => ok]_vars

\* a soft-deleted (so unverified) user and a user that does not exist were both
\* turned away while a verified user's request runs its handler
C7_Witness ==
  \E r1, r2 \in Req :
    /\ req[r1].pc = "done" /\ req[r1].status = 401 /\ req[r1].hdr.sig = "good"
    /\ ~req[r1].hdr.expired /\ req[r1].hdr.sub \in UserIds
    /\ ~users[req[r1].hdr.sub].is_verified
    /\ req[r1].error = "Access denied. Please verify your email address."
    /\ req[r2].ran /\ req[r2].ep = "auth_me" /\ req[r2].user.id = req[r2].hdr.sub


\* ------------------------------------------ specification: access control
\* Every user sends requests to the guarded routes, one request at a time, in
\* sessions of MaxSession requests.  The second customer and the second
\* accountant may have no profile row (their registration failed after the
\* users row was inserted); the second customer may have created a return,
\* which has no accountant.
InitAccess ==
  /\ users = SeedUsers \o <<SecondCustomerRow(TRUE), SecondAccountantRow>>
  /\ accountants \in
       {SeedAccountants,
        SeedAccountants \cup {[id |-> AccountantId(SecondAccountant),
                               user_id |-> SecondAccountant, is_active |-> TRUE]}}
  /\ \/ /\ customers = SeedCustomers
        /\ tax_returns = SeedReturns
     \/ /\ customers = SeedCustomers \cup
                          {[id |-> CustomerId(SecondCustomer), user_id |-> SecondCustomer]}
        /\ tax_returns \in
             {SeedReturns,
              SeedReturns \cup
                {TaxReturnRow(2, CustomerId(SecondCustomer), Null, "2023-24", "pending")}}
  /\ childRows = ChildRowsOf({})
  /\ NoFiles
  /\ reviews = {}
  /\ nextTrId = 3
  /\ req = [r \in Req |-> Idle]
  /\ script = NoScript

\* the session's next request: script.step counts the requests it has sent
SessionRequest(r, eps, headers) ==
  \E ep \in eps, hdr \in headers :
    \E arg \in InputsOf(ep) :
      /\ script.step < MaxSession
      /\ WithinBounds(ep, arg)
      /\ req[r].pc = "idle"
      /\ req' = [req EXCEPT ![r] = Middleware(ep, hdr, arg)]
      /\ script' = [script EXCEPT !.step = @ + 1]
      /\ UNCHANGED dbVars

UserTokens == {GoodToken(u) : u \in 1..MaxUsers}

GuardedEps == IdEps \cup {"tr_create", "user_delete", "admin_dashboard",
                          "admin_accountant_status"}

NextAccess ==
  \E r \in {1} :
    \/ SessionRequest(r, GuardedEps, UserTokens)
    \/ TrCreateGetCustomerId(r)
    \/ TrCreateCheckExisting(r)
    \/ TrCreateInsert(r)
    \/ TrFindById(r)
    \/ TrOwnership(r)
    \/ TrGetFullDetails(r)
    \/ TrUpdateStatus(r)
    \/ TrUpdateCalculations(r)
    \/ TrMarkAsFiled(r)
    \/ TrAccountantCheck(r)
    \/ TrAssignAccountant(r)
    \/ TrInsertIncome(r)
    \/ TxBegin(r)
    \/ TxDeleteChild(r)
    \/ TxDeleteReturn(r)
    \/ TxCommit(r)
    \/ UserDeleteFind(r)
    \/ UserDeleteSoft(r)
    \/ AdminAccountantStatus(r)
    \/ Respond(r)
    \/ Reset(r)

SpecAccess == InitAccess /\ [][NextAccess]_vars


\* the return row belongs to the user: the customer whose profile it names, or
\* the accountant whose profile is assigned to it
IsOwner(user, row) ==
  CASE user.role = "customer" ->
         \E c \in customers : c.user_id = user.id /\ row.customer_id = c.id
    [] user.role = "accountant" ->
         \E a \in accountants : a.user_id = user.id /\ row.accountant_id = a.id
    [] OTHER -> FALSE

OwnershipEps == {"tr_get", "tr_income", "tr_status", "tr_calculations", "tr_file"}

RolesAdmitted(ep) ==
  CASE ep = "tr_create" -> {"customer"}
    [] ep \in {"tr_assign", "tr_delete", "user_delete"} -> {"admin"}
    [] ep \in {"tr_status", "tr_calculations", "tr_file"} -> {"accountant", "admin"}
    [] ep \in {"admin_dashboard", "admin_accountant_status"} -> {"admin"}
    [] OTHER -> Roles

\* C9: a request of an authenticated user whose role the route does not admit
\* (POST /api/tax-returns: customer; PUT /:id/assign, DELETE /:id,
\* DELETE /api/users/:id and the /api/admin routes: admin; PUT /:id/status,
\* PUT /:id/calculations, POST /:id/file: accountant or admin) is answered 403,
\* its handler does not run and nothing is written.
C9_RoleGates ==
  \A r \in Req :
    (/\ req[r].pc # "idle" /\ req[r].user # NoUser
     /\ req[r].user.role \notin RolesAdmitted(req[r].ep))
    => /\ req[r].pc = "done" /\ req[r].status = 403
       /\ req[r].error = "Access denied. Insufficient permissions."
       /\ ~req[r].ran /\ ~req[r].wrote

\* an accountant was refused DELETE /api/tax-returns/:id of an existing return
C9_Witness ==
  \E r \in Req :
    /\ req[r].ep = "tr_delete" /\ req[r].pc = "done" /\ req[r].status = 403
    /\ req[r].user.role = "accountant" /\ req[r].arg.id \in TrIds


\* ------------------------------------------- specification: end to end
\* One client runs the script register, login, [verify-email,] POST
\* /api/tax-returns, POST /api/tax-returns against the seeded store; no other
\* request is made.  script.step is the request it is at, script.log the
\* answers so far, script.token the user its last token names.
ScriptSteps == <<"register", "login", "verify_email", "tr_create", "tr_create">>
ScriptEnd == Len(ScriptSteps) + 1

InitE2E ==
  /\ users = SeedUsers
  /\ customers = SeedCustomers
  /\ accountants = SeedAccountants
  /\ tax_returns = SeedReturns
  /\ childRows = ChildRowsOf({})
  /\ NoFiles
  /\ reviews = {}
  /\ nextTrId = 2
  /\ req = [r \in Req |-> Idle]
  /\ \E e \in {"new@x.com", "New@X.com"}, p \in ValidPasswords,
        ro \in {"", "customer"}, v \in BOOLEAN :
       script = [NoScript EXCEPT !.step = 1, !.email = e, !.password = p,
                                 !.role = ro, !.verify = v]

\* the request the script sends at its current step
ScriptRequest ==
  LET ep == ScriptSteps[script.step]
  IN CASE ep = "register" ->
            [ep |-> ep, hdr |-> NoToken,
             arg |-> [NoArg EXCEPT !.email = script.email, !.password = script.password,
                                   !.role = script.role]]
       [] ep = "login" ->
            [ep |-> ep, hdr |-> NoToken,
             arg |-> [NoArg EXCEPT !.email = script.email, !.password = script.password]]
       [] ep = "verify_email" ->
            [ep |-> ep, hdr |-> NoToken,
             arg |-> [NoArg EXCEPT !.token = VerificationToken(script.token)]]
       [] OTHER ->
            [ep |-> ep,
             hdr |-> IF script.token = 0 THEN NoToken ELSE GoodToken(script.token),
             arg |-> [NoArg EXCEPT !.taxYear = "2023-24"]]

ScriptSend ==
  /\ script.step < ScriptEnd
  /\ req[1].pc = "idle"
  /\ req' = [req EXCEPT ![1] =
               Middleware(ScriptRequest.ep, ScriptRequest.hdr, ScriptRequest.arg)]
  /\ UNCHANGED <<dbVars, script>>

\* the client reads the answer and moves on; the verify-email step is taken
\* only by a client that verifies its address
ScriptReceive ==
  /\ req[1].pc = "done"
  /\ script' = [script EXCEPT
                  !.log = Append(@, Answer(req[1].status, req[1].error)),
                  !.token = IF req[1].token # 0 THEN req[1].token ELSE @,
                  !.step = IF ScriptSteps[@] = "login" /\ ~script.verify
                             THEN @ + 2 ELSE @ + 1]
  /\ req' = [req EXCEPT ![1] = Idle]
  /\ UNCHANGED dbVars

NextE2E ==
  \/ ScriptSend
  \/ ScriptReceive
  \/ \E r \in {1} :
       \/ RegisterFindByEmail(r)
       \/ RegisterCreateUser(r)
       \/ RegisterCreateProfile(r)
       \/ LoginFindByEmail(r)
       \/ LoginVerifyPassword(r)
       \/ LoginRespond(r)
       \/ VerifyEmailFind(r)
       \/ VerifyEmailUpdate(r)
       \/ TrCreateGetCustomerId(r)
       \/ TrCreateCheckExisting(r)
       \/ TrCreateInsert(r)

SpecE2E == InitE2E /\ [][NextE2E]_vars

\* the status codes of the answers the script has received
ScriptStatuses == [i \in 1..Len(script.log) |-> script.log[i].status]

\* C1 as stated: with no other step in between, register answers 201 with a
\* token, login 200 with a token, POST /api/tax-returns with taxYear "2023-24"
\* 201, and the same POST again 400 "already exists".
C1_AsStated ==
  (script.step = ScriptEnd /\ ~script.verify)
  => /\ ScriptStatuses = <<201, 200, 201, 400>>
     /\ script.log[4].error = "Tax return for this year already exists"

\* C1: register answers 201 with a token and login 200 with a token; once the
\* address has been verified by POST /api/auth/verify-email (200), POST
\* /api/tax-returns with taxYear "2023-24" answers 201 and the same POST again
\* 400 "Tax return for this year already exists"; without the verification
\* both POSTs are answered 401.
C1_EndToEnd ==
  script.step = ScriptEnd
  => /\ script.token = Len(users) /\ script.token > Len(SeedUsers)
     /\ IF script.verify
          THEN /\ ScriptStatuses = <<201, 200, 200, 201, 400>>
               /\ script.log[5].error = "Tax return for this year already exists"
               /\ Cardinality(ReturnsOf(script.token, "2023-24")) = 1
          ELSE /\ ScriptStatuses = <<201, 200, 401, 401>>
               /\ script.log[4].error = "Access denied. Please verify your email address."
               /\ ReturnsOf(script.token, "2023-24") = {}

C1_Witness ==
  /\ script.step = ScriptEnd /\ script.verify
  /\ Len(script.log) = 5 /\ script.log[5].status = 400
  /\ ReturnsOf(script.token, "2023-24") # {}


\* C11: TaxReturn.delete is all-or-nothing.  A step of a DELETE
\* /api/tax-returns/:id request other than its successful end leaves the
\* tax_returns rows and every child table as they are, and when the request
\* ends in a failure the return it addressed is still stored: no state with
\* only some child tables emptied is visible during or after a failed call.
C11_DeleteAllOrNothing ==
  [][\A r \in Req :
       (/\ req[r].ep = "tr_delete" /\ req'[r] # req[r]
        /\ ~(req'[r].pc = "done" /\ req'[r].status = 200))
       => /\ tax_returns' = tax_returns
          /\ childRows' = childRows
          /\ req[r].pc = "txRollback" => req[r].snap \in tax_returns']_vars

\* a delete whose child DELETE statements had matched rows failed on the
\* reviews reference, and the rows are all there
C11_Witness ==
  \E r \in Req :
    /\ req[r].ep = "tr_delete" /\ req[r].pc = "done"
    /\ req[r].ran /\ req[r].status \notin {200, 404}
    /\ req[r].arg.id \in reviews
    /\ req[r].arg.id \in TrIds
    /\ req[r].arg.id \in childRows["messages"] \cap childRows["payments"]


\* ---------------------------------------------------------------------------
\* The documents routes: one session of uploads, downloads and deletes by the
\* admin, the assigned accountant, the owning customer, another customer and
\* another accountant, on the seeded return and on a return that does not
\* exist; the admin may assign the return to the other accountant.
InitUploads ==
  /\ users = SeedUsers \o <<SecondCustomerRow(TRUE), SecondAccountantRow>>
  /\ customers = SeedCustomers \cup
                   {[id |-> CustomerId(SecondCustomer), user_id |-> SecondCustomer]}
  /\ accountants = SeedAccountants \cup
                     {[id |-> AccountantId(SecondAccountant),
                       user_id |-> SecondAccountant, is_active |-> TRUE]}
  /\ tax_returns = SeedReturns
  /\ childRows = ChildRowsOf({})
  /\ NoFiles
  /\ reviews = {}
  /\ nextTrId = 2
  /\ req = [r \in Req |-> Idle]
  /\ script = NoScript

NextUploads ==
  \E r \in {1} :
    \/ SessionRequest(r, {"doc_upload", "doc_get", "doc_delete"}, UserTokens)
    \/ SessionRequest(r, {"tr_assign"}, {GoodToken(SeedAdmin)})
    \/ TrFindById(r)
    \/ TrAccountantCheck(r)
    \/ TrAssignAccountant(r)
    \/ UploadMulter(r)
    \/ UploadTaxReturnCheck(r)
    \/ UploadAccessCheck(r)
    \/ UploadInsertDocument(r)
    \/ UploadInsertDocumentFails(r)
    \/ UploadCleanup(r)
    \/ DocFind(r)
    \/ DocAccessCheck(r)
    \/ DocFsAccess(r)
    \/ DocUnlink(r)
    \/ DocDeleteRow(r)
    \/ Reset(r)

SpecUploads == InitUploads /\ [][NextUploads]_vars

\* the upload request in slot r carries a file the filter does not allow
HasDisallowed(r) ==
  \E i \in 1..Len(req[r].arg.files) :
    fileExtension(req[r].arg.files[i]) \notin allowedTypes

C13_FailedUploadCleansUp ==
  [][\A r \in Req :
       (/\ req[r].ep = "doc_upload" /\ req[r].ran
        /\ req[r].pc # "done" /\ req'[r].pc = "done" /\ req'[r].status # 201)
       => /\ req[r].pc = "cleanup" \/ req[r].files = <<>>
          /\ ~req'[r].unlinkErr => Range(req[r].files) \cap disk' = {}
          /\ req[r].pc = "cleanup" =>
               /\ req[r].status # 0 =>
                    <<req'[r].status, req'[r].error>> = <<req[r].status, req[r].error>>
               /\ req[r].status = 0 =>
                    <<req'[r].status, req'[r].error>> =
                      <<errorHandler(req[r]).status, errorHandler(req[r]).error>>]_vars

\* an upload of two files failed on the insert for its second file, every
\* unlink succeeded and the request has been answered
C13_Witness ==
  \E r \in Req :
    /\ req[r].ep = "doc_upload" /\ req[r].pc = "done" /\ req[r].ran
    /\ Len(req[r].files) = 2 /\ req[r].k = 2 /\ req[r].wrote
    /\ req[r].status # 201 /\ ~req[r].unlinkErr
    /\ Range(req[r].files) \cap disk = {}

\* the caller passes the ownership check of the document's tax return: an
\* admin, the owning customer, the assigned accountant
PassesOwnership(user, doc) == user.role = "admin" \/ IsOwner(user, doc)

\* the caller may delete the document by the rule of the delete route: an
\* admin, the user who uploaded it, the assigned accountant
MayDelete(user, doc) ==
  \/ user.role = "admin"
  \/ doc.uploaded_by = user.id
  \/ user.role = "accountant" /\ IsOwner(user, doc)

\* the answered document requests that found their document
AnsweredDocRequests ==
  {r \in Req : /\ req[r].ep \in {"doc_get", "doc_delete"}
               /\ req[r].pc = "done" /\ req[r].doc # NoDoc}

\* C14 as the claim states it: download and delete of a document are both
\* allowed exactly when the caller passes the ownership check of its tax
\* return, and are answered 403 without touching row or file otherwise.
C14_AsStated ==
  \A r \in AnsweredDocRequests :
    /\ req[r].status # 403 <=> PassesOwnership(req[r].user, req[r].doc)
    /\ req[r].status = 403 => ~req[r].wrote /\ ~req[r].unlinkErr

\* C14: a download of a document is allowed exactly when the caller passes the
\* ownership check of its tax return (admin, owning customer, assigned
\* accountant); a delete is allowed exactly when the caller is an admin, the
\* user who uploaded the document, or the assigned accountant.  A request that
\* is not allowed is answered 403 and neither the row nor the file is touched.
C14_DocumentAccess ==
  \A r \in AnsweredDocRequests :
    /\ req[r].ep = "doc_get" =>
         (req[r].status # 403 <=> PassesOwnership(req[r].user, req[r].doc))
    /\ req[r].ep = "doc_delete" =>
         (req[r].status # 403 <=> MayDelete(req[r].user, req[r].doc))
    /\ req[r].status = 403 =>
         /\ ~req[r].wrote /\ ~req[r].unlinkErr
         /\ \E d \in documents : d.id = req[r].doc.id

\* the owning customer was refused the delete of a document that the admin
\* had uploaded to the customer's return
C14_Witness ==
  \E r \in AnsweredDocRequests :
    /\ req[r].ep = "doc_delete" /\ req[r].status = 403
    /\ req[r].user.role = "customer"
    /\ PassesOwnership(req[r].user, req[r].doc)
    /\ req[r].doc.uploaded_by = SeedAdmin

\* ---------------------------------------------------------------------------
\* The lifecycle of a return: one session of status updates, assignments and
\* filings by the admin, the assigned accountant and another accountant, on
\* the seeded return and on a pending return the customer has created.
InitStatus ==
  /\ users = SeedUsers \o <<SecondCustomerRow(TRUE), SecondAccountantRow>>
  /\ customers = SeedCustomers
  /\ accountants = SeedAccountants \cup
                     {[id |-> AccountantId(SecondAccountant),
                       user_id |-> SecondAccountant, is_active |-> TRUE]}
  /\ tax_returns = SeedReturns \cup
                     {TaxReturnRow(2, CustomerId(SeedCustomer), Null, "2022-23", "pending")}
  /\ childRows = ChildRowsOf({})
  /\ NoFiles
  /\ reviews = {}
  /\ nextTrId = 3
  /\ req = [r \in Req |-> Idle]
  /\ script = NoScript

\* the parameters of the session's requests: every status, and one that is none
StatusInputs(ep) ==
  CASE ep = "tr_status" ->
         {[WithId(i) EXCEPT !.status = st] : i \in 1..2, st \in Statuses \cup {"archived"}}
    [] ep = "tr_file" ->
         {[WithId(i) EXCEPT !.hmrcReference = h] : i \in 1..2, h \in {"HMRC-1", ""}}
    [] ep = "tr_assign" ->
         {[WithId(i) EXCEPT !.accountantId = a] :
            i \in 1..2,
            a \in {AccountantId(SeedAccountant), AccountantId(SecondAccountant)}}

StatusRequest(r) ==
  \E ep \in {"tr_status", "tr_file", "tr_assign"},
     hdr \in {GoodToken(SeedAdmin), GoodToken(SeedAccountant), GoodToken(SecondAccountant)} :
    \E arg \in StatusInputs(ep) :
      /\ script.step < MaxSession
      /\ req[r].pc = "idle"
      /\ req' = [req EXCEPT ![r] = Middleware(ep, hdr, arg)]
      /\ script' = [script EXCEPT !.step = @ + 1]
      /\ UNCHANGED dbVars

NextStatus ==
  \E r \in {1} :
    \/ StatusRequest(r)
    \/ TrFindById(r)
    \/ TrOwnership(r)
    \/ TrUpdateStatus(r)
    \/ TrMarkAsFiled(r)
    \/ TrAccountantCheck(r)
    \/ TrAssignAccountant(r)
    \/ Reset(r)

SpecStatus == InitStatus /\ [][NextStatus]_vars

\* C15: status updates are unguarded.  Whatever status s a return is in and
\* whichever of the six statuses s' the request names, a PUT /:id/status by
\* an admin or by the accountant assigned to the return is answered 200 and
\* leaves the return in s'.
C15_StatusUpdatesUnguarded ==
  \A r \in Req :
    (/\ req[r].ep = "tr_status" /\ req[r].pc = "done"
     /\ req[r].arg.status \in Statuses
     /\ req[r].arg.id \in TrIds
     /\ \/ req[r].user.role = "admin"
        \/ req[r].user.role = "accountant" /\ IsOwner(req[r].user, findById(req[r].arg.id)))
    => /\ req[r].status = 200
       /\ req[r].snap.status \in Statuses
       /\ findById(req[r].arg.id).status = req[r].arg.status

\* the assigned accountant has moved a filed return back to pending
C15_Witness ==
  \E r \in Req :
    /\ req[r].ep = "tr_status" /\ req[r].pc = "done" /\ req[r].status = 200
    /\ req[r].user.role = "accountant"
    /\ req[r].snap.status = "filed" /\ req[r].arg.status = "pending"
    /\ findById(req[r].arg.id).status = "pending"

\* a change of status the lifecycle allows: forward along pending,
\* in_progress, review, completed, filed, or to cancelled, and none out of
\* filed or cancelled
Advances(old, new) ==
  /\ old \notin {"filed", "cancelled"}
  /\ new = "cancelled" \/ StatusRank(new) > StatusRank(old)

\* C16: the status of a return only advances along pending, in_progress,
\* review, completed, filed, and never changes once it is filed or cancelled.
C16_StatusOnlyAdvances ==
  [][\A t \in tax_returns : \A u \in tax_returns' :
       (u.id = t.id /\ u.status # t.status) => Advances(t.status, u.status)]_vars

\* C17: an accepted PUT /:id/assign sets the accountant of the return, and
\* sets its status to in_progress only when the status was pending; a return
\* in any other status keeps its status.
C17_AssignKeepsLaterStatus ==
  [][\A r \in Req :
       (/\ req[r].ep = "tr_assign" /\ req[r].pc = "assignAccountant"
        /\ req'[r].pc = "done" /\ req'[r].status = 200)
       => \A t \in tax_returns : \A u \in tax_returns' :
            (u.id = t.id /\ t.id = req[r].arg.id)
            => /\ u.accountant_id = req[r].arg.accountantId
               /\ u.status = IF t.status = "pending" THEN "in_progress" ELSE t.status]_vars

\* C18: a return whose status is filed has a non-empty HMRC reference and a
\* filed date.
C18_FiledHasReference ==
  \A t \in tax_returns :
    t.status = "filed" => t.hmrc_reference # "" /\ t.filed_date

\* ---------------------------------------------------------------------------
\* Accounts: the admin (and, to no effect, the seeded customer) deletes users
\* while visitors register, with the address of a registered customer among
\* the addresses they register.
InitUsers ==
  /\ users = SeedUsers \o <<SecondCustomerRow(TRUE)>>
  /\ customers = SeedCustomers \cup
                   {[id |-> CustomerId(SecondCustomer), user_id |-> SecondCustomer]}
  /\ accountants = SeedAccountants
  /\ tax_returns = SeedReturns
  /\ childRows = ChildRowsOf({})
  /\ NoFiles
  /\ reviews = {}
  /\ nextTrId = 2
  /\ req = [r \in Req |-> Idle]
  /\ script = NoScript

UsersInputs(ep) ==
  CASE ep = "register" ->
         {[NoArg EXCEPT !.email = e, !.password = "Passw0rd1", !.role = ro] :
            e \in {"second@x.com", "customer@taxpro.com"}, ro \in {"", "accountant"}}
    [] ep = "user_delete" ->
         {WithId(i) : i \in {SeedAdmin, SeedCustomer, SecondCustomer, MaxUsers, MaxUsers + 1}}

UsersClient(r, ep, headers) ==
  \E hdr \in headers :
    \E arg \in UsersInputs(ep) :
      /\ \A o \in 1..(r - 1) : req[o].pc # "idle"
      /\ WithinBounds(ep, arg)
      /\ Request(r, ep, hdr, arg)

NextUsers ==
  \E r \in Req :
    \/ UsersClient(r, "register", {NoToken})
    \/ UsersClient(r, "user_delete", {GoodToken(SeedAdmin), GoodToken(SeedCustomer)})
    \/ RegisterFindByEmail(r)
    \/ RegisterCreateUser(r)
    \/ RegisterCreateProfile(r)
    \/ RegisterCreateProfileFails(r)
    \/ UserDeleteFind(r)
    \/ UserDeleteSoft(r)
    \/ Reset(r)

SpecUsers == InitUsers /\ [][NextUsers]_vars

\* C19: users are never hard-deleted.  No step removes a users row or lowers
\* the number of rows; a DELETE /api/users/:id that is answered 200 keeps the
\* row, with an email that differs from the one it had and is_verified false
\* and nothing else changed, and leaves no row with the original email, so
\* that the address is free for a new registration.
C19_UsersOnlySoftDeleted ==
  [][/\ Len(users') >= Len(users)
     /\ \A r \in Req :
          (/\ req[r].ep = "user_delete" /\ req[r].pc # "done"
           /\ req'[r].pc = "done" /\ req'[r].status = 200)
          => LET u == req[r].arg.id
             IN /\ u \in 1..Len(users) /\ Len(users') = Len(users)
                /\ users'[u].email # users[u].email
                /\ ~users'[u].is_verified
                /\ users' = [users EXCEPT ![u].email = users'[u].email,
                                          ![u].is_verified = FALSE]
                /\ \A v \in 1..Len(users') : users'[v].email # users[u].email
     /\ (\E u \in 1..Len(users) : users'[u].email # users[u].email)
          => \E r \in Req : /\ req[r].ep = "user_delete" /\ req[r].pc # "done"
                             /\ req'[r].pc = "done" /\ req'[r].status = 200]_vars

\* the second customer has been deleted and the row is still there, and a
\* later registration with the customer's address has been answered 201
C19_Witness ==
  \E r \in Req :
    /\ req[r].ep = "register" /\ req[r].pc = "done" /\ req[r].status = 201
    /\ req[r].arg.email = "second@x.com"
    /\ users[SecondCustomer].email.addr = "second@x.com"
    /\ Len(users[SecondCustomer].email.deleted) = 1
    /\ ~users[SecondCustomer].is_verified
    /\ users[req[r].found].email = Email("second@x.com")

\* the users whose registration is between its two inserts
BeingRegistered ==
  {req[r].found : r \in {x \in Req : req[x].ep = "register" /\ req[x].pc = "createProfile"}}

\* C20: once its registration has ended, a user created through register with
\* role customer has exactly one customers row and no accountants row, and
\* one with role accountant exactly one accountants row and no customers row,
\* also when the profile insert failed: no users row is without its profile.
C20_EveryUserHasProfile ==
  \A u \in UserIds \ (1..Len(SeedUsers) \cup BeingRegistered) :
    /\ users[u].role = "customer" =>
         /\ Cardinality({c \in customers : c.user_id = u}) = 1
         /\ {a \in accountants : a.user_id = u} = {}
    /\ users[u].role = "accountant" =>
         /\ Cardinality({a \in accountants : a.user_id = u}) = 1
         /\ {c \in customers : c.user_id = u} = {}

\* ---------------------------------------------------------------------------
\* Reassignment under way: the seeded accountant updates, calculates and files
\* returns while the admin assigns them, MaxReq requests in flight.
InitRace ==
  /\ users = SeedUsers \o <<SecondCustomerRow(TRUE), SecondAccountantRow>>
  /\ customers = SeedCustomers
  /\ accountants = SeedAccountants \cup
                     {[id |-> AccountantId(SecondAccountant),
                       user_id |-> SecondAccountant, is_active |-> TRUE]}
  /\ tax_returns = SeedReturns
  /\ childRows = ChildRowsOf({})
  /\ NoFiles
  /\ reviews = {}
  /\ nextTrId = 2
  /\ req = [r \in Req |-> Idle]
  /\ script = NoScript

NextRace ==
  \E r \in Req :
    \/ Client(r, {"tr_status", "tr_calculations", "tr_file"}, {GoodToken(SeedAccountant)})
    \/ Client(r, {"tr_assign"}, {GoodToken(SeedAdmin)})
    \/ TrFindById(r)
    \/ TrOwnership(r)
    \/ TrUpdateStatus(r)
    \/ TrUpdateCalculations(r)
    \/ TrMarkAsFiled(r)
    \/ TrAccountantCheck(r)
    \/ TrAssignAccountant(r)
    \/ Reset(r)

SpecRace == InitRace /\ [][NextRace]_vars

\* the routes that write a return after the assigned-accountant check
CheckedUpdateEps == {"tr_status", "tr_calculations", "tr_file"}

\* C21: the ownership check and the update are not one atomic step.  The
\* update statement of PUT /:id/status, PUT /:id/calculations and POST
\* /:id/file does not look at the assignment again: once an accountant's
\* request has passed the check, its update is applied to the stored return
\* and answered 200 whoever the return is assigned to by then, also after an
\* admin's PUT /:id/assign has given it to another accountant.
C21_UpdateAppliedAfterReassign ==
  [][\A r \in Req :
       (/\ req[r].ep \in CheckedUpdateEps /\ req[r].user.role = "accountant"
        /\ req[r].pc = ActionStep(req[r].ep) /\ req'[r] # req[r]
        /\ req[r].arg.id \in TrIds)
       => /\ req'[r].pc = "done" /\ req'[r].status = 200
          /\ \A t \in tax_returns : \A u \in tax_returns' :
               (u.id = t.id /\ t.id = req[r].arg.id)
               => /\ u.accountant_id = t.accountant_id
                  /\ req[r].ep = "tr_status" => u.status = req[r].arg.status
                  /\ req[r].ep = "tr_calculations" =>
                       u.total_income = req[r].arg.totalIncome
                  /\ req[r].ep = "tr_file" =>
                       u.status = "filed" /\ u.hmrc_reference = req[r].arg.hmrcReference]_vars

\* the seeded accountant's status update passed the check while the return
\* was theirs, the admin's assignment has given the return to the other
\* accountant, and the update has been applied and answered 200 after it
C21_Witness ==
  \E r \in Req :
    /\ req[r].ep = "tr_status" /\ req[r].pc = "done" /\ req[r].status = 200
    /\ req[r].user = [id |-> SeedAccountant, role |-> "accountant"]
    /\ req[r].snap.accountant_id = AccountantId(SeedAccountant)
    /\ req[r].snap.status = "in_progress"
    /\ findById(req[r].arg.id).accountant_id = AccountantId(SecondAccountant)
    /\ findById(req[r].arg.id).status = "review"

\* ---------------------------------------------------------------------------
\* Forgotten passwords: visitors ask for a reset link for registered and for
\* unregistered addresses, MaxReq requests in flight.
InitForgot ==
  /\ users = SeedUsers
  /\ customers = SeedCustomers
  /\ accountants = SeedAccountants
  /\ tax_returns = SeedReturns
  /\ childRows = ChildRowsOf({})
  /\ NoFiles
  /\ reviews = {}
  /\ nextTrId = 2
  /\ req = [r \in Req |-> Idle]
  /\ script = NoScript

NextForgot ==
  \E r \in Req :
    \/ Client(r, {"forgot_password"}, {NoToken})
    \/ ForgotFindByEmail(r)
    \/ ForgotSetResetToken(r)
    \/ Reset(r)

SpecForgot == InitForgot /\ [][NextForgot]_vars

\* the answered forgot-password requests that carried a well-formed email
AnsweredForgot ==
  {r \in Req : req[r].ep = "forgot_password" /\ req[r].pc = "done" /\ req[r].ran}

\* C22: POST /api/auth/forgot-password does not reveal whether an email is
\* registered: any two answered requests, one for an address of a stored user
\* and one for an address of none, carry the same status and the same body.
C22_ForgotPasswordRevealsNothing ==
  \A r1 \in AnsweredForgot : \A r2 \in AnsweredForgot :
    (req[r1].found # 0 /\ req[r2].found = 0) =>
    /\ req[r1].status = req[r2].status
    /\ req[r1].message = req[r2].message
    /\ req[r1].resetToken = req[r2].resetToken


\* ------------------------------------------- specification: contact inquiries
\* Visitors submit inquiries while the admin sets their status and assigns them,
\* MaxReq requests in flight.
InitContact ==
  /\ users = SeedUsers
  /\ customers = SeedCustomers
  /\ accountants = SeedAccountants
  /\ tax_returns = SeedReturns
  /\ childRows = ChildRowsOf({})
  /\ NoFiles
  /\ reviews = {}
  /\ nextTrId = 2
  /\ req = [r \in Req |-> Idle]
  /\ script = NoScript

NextContact ==
  \E r \in Req :
    \/ Client(r, {"contact_create"}, {NoToken})
    \/ Client(r, {"contact_status", "contact_assign"}, {GoodToken(SeedAdmin)})
    \/ ContactInsert(r)
    \/ ContactUpdateStatus(r)
    \/ ContactUserCheck(r)
    \/ ContactAssign(r)
    \/ Reset(r)

SpecContact == InitContact /\ [][NextContact]_vars

\* the user assignedTo names exists and has the role admin
NamesAdmin(assignedTo) == assignedTo \in UserIds /\ users[assignedTo].role = "admin"

\* the assign requests of an admin that get their answer in this step
AssignAnswered == {r \in Req : /\ req'[r].ep = "contact_assign"
                               /\ req'[r].pc = "done" /\ req[r].pc # "done"
                               /\ req'[r].user # NoUser}

\* C23: PUT /api/contact/inquiries/:id/assign is accepted only when assignedTo
\* names an existing user with the role admin, otherwise it answers 400 and
\* leaves the inquiries unchanged; when accepted it sets assigned_to and moves
\* the status to in_progress only if it was new, leaving every other status;
\* so a non-null assigned_to always refers to an admin user.
C23_AssignedToAdminOnly ==
  [][/\ \A r \in AssignAnswered :
          LET arg == req'[r].arg IN
          /\ ~NamesAdmin(arg.assignedTo) =>
                req'[r].status = 400 /\ contact_inquiries' = contact_inquiries
          /\ NamesAdmin(arg.assignedTo) =>
                /\ req'[r].status \in {200, 404}
                /\ \A i \in contact_inquiries :
                     IF i.id = arg.id
                       THEN [i EXCEPT !.assigned_to = arg.assignedTo,
                                      !.status = IF i.status = "new" THEN "in_progress"
                                                 ELSE i.status] \in contact_inquiries'
                       ELSE i \in contact_inquiries'
                /\ Cardinality(contact_inquiries') = Cardinality(contact_inquiries)
      /\ \A i \in contact_inquiries' :
           i.assigned_to # 0 => NamesAdmin(i.assigned_to)]_vars

\* an inquiry that was resolved has been assigned and is still resolved, and
\* an assignment to a user who is no admin has been refused
C23_Witness ==
  /\ \E r \in Req : /\ req[r].ep = "contact_assign" /\ req[r].pc = "done"
                     /\ req[r].status = 200
                     /\ \E i \in contact_inquiries :
                          /\ i.id = req[r].arg.id
                          /\ i.assigned_to = SeedAdmin /\ i.status = "resolved"
  /\ \E r \in Req : /\ req[r].ep = "contact_assign" /\ req[r].pc = "done"
                     /\ req[r].arg.assignedTo = SeedAccountant
                     /\ req[r].status = 400


\* ------------------------------------------- specification: deleted users
\* A visitor registers and may verify the address, the admin soft-deletes
\* users, and the registered user presents the token the registration issued,
\* MaxReq requests in flight.
InitDeleted ==
  /\ users = SeedUsers
  /\ customers = SeedCustomers
  /\ accountants = SeedAccountants
  /\ tax_returns = SeedReturns
  /\ childRows = ChildRowsOf({})
  /\ NoFiles
  /\ reviews = {}
  /\ nextTrId = 2
  /\ req = [r \in Req |-> Idle]
  /\ script = NoScript

DeletedInputs(ep) ==
  CASE ep = "register" ->
         {[NoArg EXCEPT !.email = "second@x.com", !.password = "Passw0rd1"]}
    [] ep = "user_delete" -> {WithId(i) : i \in {SeedCustomer, SecondCustomer}}
    [] ep = "verify_email" ->
         {[NoArg EXCEPT !.token = t] : t \in {VerificationToken(SecondCustomer), MaxUsers + 1}}
    [] OTHER -> {NoArg}

DeletedClient(r, ep, headers) ==
  \E hdr \in headers :
    \E arg \in DeletedInputs(ep) :
      /\ \A o \in 1..(r - 1) : req[o].pc # "idle"
      /\ WithinBounds(ep, arg)
      /\ Request(r, ep, hdr, arg)

NextDeleted ==
  \E r \in Req :
    \/ DeletedClient(r, "register", {NoToken})
    \/ DeletedClient(r, "user_delete", {GoodToken(SeedAdmin)})
    \/ DeletedClient(r, "verify_email", {NoToken})
    \/ DeletedClient(r, "auth_me", {GoodToken(SeedCustomer), GoodToken(SecondCustomer)})
    \/ RegisterFindByEmail(r)
    \/ RegisterCreateUser(r)
    \/ RegisterCreateProfile(r)
    \/ RegisterCreateProfileFails(r)
    \/ VerifyEmailFind(r)
    \/ VerifyEmailUpdate(r)
    \/ UserDeleteFind(r)
    \/ UserDeleteSoft(r)
    \/ Respond(r)
    \/ Reset(r)

SpecDeleted == InitDeleted /\ [][NextDeleted]_vars

\* the users an admin has soft-deleted
SoftDeleted == {u \in UserIds : users[u].email.deleted # <<>>}

\* C24: once a user is soft-deleted, every request arriving later with a token
\* issued to that user is answered 401 by authenticate, whatever public
\* operations (verify-email among them) have run since the deletion.
C24_DeletedUserLockedOut ==
  [][\A r \in Req :
       (/\ req[r].pc = "idle" /\ req'[r].pc # "idle"
        /\ req'[r].ep \notin PublicEps
        /\ req'[r].hdr.sub \in SoftDeleted)
       => req'[r].pc = "done" /\ req'[r].status = 401]_vars


\* ------------------------------------------- specification: two admins
\* Two verified admins, the seeded one and one created the way the seed script
\* creates its admin, delete users, each other among them, MaxReq requests in
\* flight.
SecondAdmin == 4
SecondAdminRow == UserRow("admin2@taxpro.com", "Admin456!", "admin", TRUE, 0)

InitAdmins ==
  /\ users = SeedUsers \o <<SecondAdminRow>>
  /\ customers = SeedCustomers
  /\ accountants = SeedAccountants
  /\ tax_returns = SeedReturns
  /\ childRows = ChildRowsOf({})
  /\ NoFiles
  /\ reviews = {}
  /\ nextTrId = 2
  /\ req = [r \in Req |-> Idle]
  /\ script = NoScript

\* a DELETE /api/users/:id request of one of the admins; no row is
\* soft-deleted more than MaxDeleted times
AdminsClient(r) ==
  \E hdr \in {GoodToken(SeedAdmin), GoodToken(SecondAdmin)} :
    \E arg \in {WithId(i) : i \in {SeedAdmin, SeedCustomer, SecondAdmin, MaxUsers + 1}} :
      /\ \A o \in 1..(r - 1) : req[o].pc # "idle"
      /\ arg.id \in UserIds =>
            Len(users[arg.id].email.deleted)
              + Cardinality({o \in InFlight("user_delete") : req[o].arg.id = arg.id})
              < MaxDeleted
      /\ Request(r, "user_delete", hdr, arg)

NextAdmins ==
  \E r \in Req :
    \/ AdminsClient(r)
    \/ UserDeleteFind(r)
    \/ UserDeleteSoft(r)
    \/ Reset(r)

SpecAdmins == InitAdmins /\ [][NextAdmins]_vars

\* C25: a verified admin exists in every reachable state; no interleaving of
\* DELETE /api/users/:id requests, two admins deleting each other at the same
\* time among them, removes the last verified admin.
C25_VerifiedAdminRemains ==
  \E u \in UserIds : users[u].role = "admin" /\ users[u].is_verified


\* ------------------------------------------- specification: roles
\* Every route that writes the users table: visitors register, verify their
\* address and ask for a password reset, users update their profile and the
\* admin deletes users, MaxReq requests in flight.
InitRoles ==
  /\ users = SeedUsers
  /\ customers = SeedCustomers
  /\ accountants = SeedAccountants
  /\ tax_returns = SeedReturns
  /\ childRows = ChildRowsOf({})
  /\ NoFiles
  /\ reviews = {}
  /\ nextTrId = 2
  /\ req = [r \in Req |-> Idle]
  /\ script = NoScript

RolesInputs(ep) ==
  CASE ep = "register" ->
         {[NoArg EXCEPT !.email = "second@x.com", !.password = "Passw0rd1", !.role = ro] :
            ro \in {"accountant", "admin"}}
    [] ep = "user_profile" ->
         {[NoArg EXCEPT !.firstName = "Ann", !.role = "admin"],
          [NoArg EXCEPT !.firstName = "A"], NoArg}
    [] ep = "user_delete" -> {WithId(SecondCustomer)}
    [] ep = "verify_email" -> {[NoArg EXCEPT !.token = VerificationToken(SecondCustomer)]}
    [] ep = "forgot_password" -> {[NoArg EXCEPT !.email = "second@x.com"]}

RolesClient(r, ep, headers) ==
  \E hdr \in headers :
    \E arg \in RolesInputs(ep) :
      /\ \A o \in 1..(r - 1) : req[o].pc # "idle"
      /\ WithinBounds(ep, arg)
      /\ Request(r, ep, hdr, arg)

NextRoles ==
  \E r \in Req :
    \/ RolesClient(r, "register", {NoToken})
    \/ RolesClient(r, "verify_email", {NoToken})
    \/ RolesClient(r, "forgot_password", {NoToken})
    \/ RolesClient(r, "user_profile", {GoodToken(SecondCustomer)})
    \/ RolesClient(r, "user_delete", {GoodToken(SeedAdmin)})
    \/ RegisterFindByEmail(r)
    \/ RegisterCreateUser(r)
    \/ RegisterCreateProfile(r)
    \/ RegisterCreateProfileFails(r)
    \/ VerifyEmailFind(r)
    \/ VerifyEmailUpdate(r)
    \/ ForgotFindByEmail(r)
    \/ ForgotSetResetToken(r)
    \/ ProfileFind(r)
    \/ ProfileUpdate(r)
    \/ UserDeleteFind(r)
    \/ UserDeleteSoft(r)
    \/ Reset(r)

SpecRoles == InitRoles /\ [][NextRoles]_vars

\* C26: no request creates an admin or changes a role: a step leaves the role
\* of every users row as it is, and a row it adds is a customer or an accountant.
C26_NoAdminCreatedNoRoleChanged ==
  [][/\ \A u \in UserIds : users'[u].role = users[u].role
     /\ \A u \in DOMAIN users' :
          u \notin UserIds => users'[u].role \in {"customer", "accountant"}]_vars

\* a registration as accountant has created its row, a registration as admin
\* was refused, and a profile update carrying a role has written the name only
C26_Witness ==
  /\ SecondCustomer \in UserIds /\ users[SecondCustomer].role = "accountant"
  /\ users[SecondCustomer].reset_password_token # 0
  /\ \E r \in Req : /\ req[r].ep = "register" /\ req[r].pc = "done"
                     /\ req[r].arg.role = "admin" /\ req[r].status = 400
  /\ \E r \in Req : /\ req[r].ep = "user_profile" /\ req[r].pc = "done"
                     /\ req[r].arg.role = "admin" /\ req[r].status = 200
                     /\ users[req[r].user.id].first_name = "Ann"


\* no request is being served: every request sent so far has completed
Quiescent == \A r \in Req : req[r].pc \in {"idle", "done"}

\* C27: after any completed upload or document-delete request every documents
\* row refers to a file present in the upload directory: a failed upload
\* leaves no row for the files it had inserted, and a delete never leaves the
\* row behind after removing the file.
C27_EveryRowHasItsFile ==
  Quiescent => \A d \in documents : d.file_path \in disk


\* ------------------------------------------- specification: stored files
\* The seeded admin, accountant and customer upload documents to tax returns
\* and delete documents, and the admin deletes tax returns, one request at a time,
\* MaxSession requests in a session.
InitStorage ==
  /\ users = SeedUsers
  /\ customers = SeedCustomers
  /\ accountants = SeedAccountants
  /\ tax_returns = SeedReturns
  /\ childRows = ChildRowsOf({})
  /\ NoFiles
  /\ reviews \in {{}, {1}}
  /\ nextTrId = 2
  /\ req = [r \in Req |-> Idle]
  /\ script = NoScript

NextStorage ==
  \E r \in {1} :
    \/ SessionRequest(r, {"doc_upload", "doc_delete"},
                      {GoodToken(SeedAdmin), GoodToken(SeedAccountant), GoodToken(SeedCustomer)})
    \/ SessionRequest(r, {"tr_delete"}, {GoodToken(SeedAdmin)})
    \/ UploadMulter(r)
    \/ UploadTaxReturnCheck(r)
    \/ UploadAccessCheck(r)
    \/ UploadInsertDocument(r)
    \/ UploadInsertDocumentFails(r)
    \/ UploadCleanup(r)
    \/ DocFind(r)
    \/ DocAccessCheck(r)
    \/ DocUnlink(r)
    \/ DocDeleteRow(r)
    \/ TrFindById(r)
    \/ TxBegin(r)
    \/ TxDeleteChild(r)
    \/ TxDeleteReturn(r)
    \/ TxCommit(r)
    \/ TxRollback(r)
    \/ Reset(r)

SpecStorage == InitStorage /\ [][NextStorage]_vars

\* the DELETE /api/tax-returns/:id requests answered 200 in this step
DeleteSucceeds == {r \in Req : /\ req[r].ep = "tr_delete" /\ req[r].pc # "done"
                               /\ req'[r].pc = "done" /\ req'[r].status = 200}

\* C28: no stored file outlives its metadata: after a successful
\* DELETE /api/tax-returns/:id no file uploaded for that return remains in the
\* upload directory, and once the requests that touched it have completed
\* every file in the directory is referenced by some documents row.
C28_NoFileOutlivesItsRow ==
  [][/\ \A r \in DeleteSucceeds :
          \A d \in documents :
            d.tax_return_id = req[r].arg.id => d.file_path \notin disk'
     /\ Quiescent' => \A f \in disk' : \E d \in documents' : d.file_path = f]_vars


\* ------------------------------------------- specification: GET routes
\* The seeded customer, accountant and admin send GET requests below
\* /api/tax-returns, MaxReq requests in flight; the router picks the handler.
InitStats ==
  /\ users = SeedUsers
  /\ customers = SeedCustomers
  /\ accountants = SeedAccountants
  /\ tax_returns = SeedReturns
  /\ childRows = ChildRowsOf({})
  /\ NoFiles
  /\ reviews = {}
  /\ nextTrId = 2
  /\ req = [r \in Req |-> Idle]
  /\ script = NoScript

StatsClient(r) ==
  \E hdr \in {GoodToken(SeedCustomer), GoodToken(SeedAccountant), GoodToken(SeedAdmin)} :
    \E path \in GetPaths :
      /\ \A o \in 1..(r - 1) : req[o].pc # "idle"
      /\ Request(r, dispatch(path), hdr, [WithId(paramsId(path)) EXCEPT !.path = path])

NextStats ==
  \E r \in Req :
    \/ StatsClient(r)
    \/ TrFindById(r)
    \/ TrFindByIdInvalid(r)
    \/ TrOwnership(r)
    \/ TrGetFullDetails(r)
    \/ Reset(r)

SpecStats == InitStats /\ [][NextStats]_vars

\* C29: GET /api/tax-returns/stats is dispatched to the statistics handler, not
\* to the handler of GET /:id, so that its caller gets statistics (scoped to
\* the caller's own or assigned returns unless the caller is an admin).
C29_StatsReachesStatsHandler ==
  \A r \in Req :
    (req[r].arg.path = "/stats" /\ req[r].pc # "idle" /\ req[r].user # NoUser)
    => req[r].ep = "tr_stats"


\* ------------------------------------------- the transaction helper
\* config/database.js, transaction(callback).  A statement sent on the client
\* either succeeds or fails (the server refuses it, the connection is lost);
\* issued lists the statements sent, caught is where the error the catch
\* block got came from, outcome what the caller receives.
storeVars == <<users, customers, accountants, tax_returns, childRows, reviews, nextTrId,
               fileVars, contact_inquiries>>

\* a caller calls transaction(callback) with a callback of n statements
TransactionCall(r) ==
  /\ tx[r].pc = "idle"
  /\ \E n \in 0..MaxStatements :
       tx' = [tx EXCEPT ![r] = [NoCall EXCEPT !.pc = "connect", !.statements = n]]
  /\ UNCHANGED <<storeVars, req, script>>

\* const client = await pool.connect(): outside the try block, its error goes
\* to the caller
TransactionConnect(r) ==
  /\ tx[r].pc = "connect"
  /\ \E ok \in BOOLEAN :
       tx' = [tx EXCEPT ![r] =
                IF ok THEN [@ EXCEPT !.pc = "begin", !.held = TRUE]
                ELSE [@ EXCEPT !.pc = "done", !.outcome = "connect"]]
  /\ UNCHANGED <<storeVars, req, script>>

\* await client.query('BEGIN')
TransactionBegin(r) ==
  /\ tx[r].pc = "begin"
  /\ \E ok \in BOOLEAN :
       tx' = [tx EXCEPT ![r] =
                [@ EXCEPT !.issued = Append(@, "BEGIN"),
                          !.pc = IF ok THEN "callback" ELSE "rollback",
                          !.caught = IF ok THEN "" ELSE "BEGIN"]]
  /\ UNCHANGED <<storeVars, req, script>>

\* const result = await callback(client): the callback sends its next
\* statement, returns when it has sent them all, or throws
TransactionCallback(r) ==
  /\ tx[r].pc = "callback"
  /\ \E ok \in BOOLEAN :
       tx' = [tx EXCEPT ![r] =
                IF ~ok THEN [@ EXCEPT !.pc = "rollback", !.caught = "callback"]
                ELSE IF tx[r].statements = 0 THEN [@ EXCEPT !.pc = "commit"]
                ELSE [@ EXCEPT !.issued = Append(@, "statement"),
                               !.statements = @ - 1]]
  /\ UNCHANGED <<storeVars, req, script>>

\* await client.query('COMMIT'); return result
TransactionCommit(r) ==
  /\ tx[r].pc = "commit"
  /\ \E ok \in BOOLEAN :
       tx' = [tx EXCEPT ![r] =
                [@ EXCEPT !.issued = Append(@, "COMMIT"),
                          !.pc = IF ok THEN "finally" ELSE "rollback",
                          !.outcome = IF ok THEN "result" ELSE "",
                          !.caught = IF ok THEN "" ELSE "COMMIT"]]
  /\ UNCHANGED <<storeVars, req, script>>

\* catch (error) { await client.query('ROLLBACK'); throw error; }: an error
\* of the ROLLBACK itself leaves the catch block in place of the one caught
TransactionRollback(r) ==
  /\ tx[r].pc = "rollback"
  /\ \E ok \in BOOLEAN :
       tx' = [tx EXCEPT ![r] =
                [@ EXCEPT !.issued = Append(@, "ROLLBACK"),
                          !.pc = "finally",
                          !.outcome = IF ok THEN tx[r].caught ELSE "ROLLBACK"]]
  /\ UNCHANGED <<storeVars, req, script>>

\* finally { client.release(); }
TransactionRelease(r) ==
  /\ tx[r].pc = "finally"
  /\ tx' = [tx EXCEPT ![r] = [@ EXCEPT !.released = @ + 1, !.pc = "done"]]
  /\ UNCHANGED <<storeVars, req, script>>

\* the caller has the result or the error
TransactionReturn(r) ==
  /\ tx[r].pc = "done"
  /\ tx' = [tx EXCEPT ![r] = NoCall]
  /\ UNCHANGED <<storeVars, req, script>>

\* ------------------------------------------- specification: transactions
\* MaxReq callers run transactions of up to MaxStatements statements; every
\* statement may fail.
InitTx ==
  /\ users = SeedUsers
  /\ customers = SeedCustomers
  /\ accountants = SeedAccountants
  /\ tax_returns = SeedReturns
  /\ childRows = ChildRowsOf({})
  /\ NoFiles
  /\ reviews = {}
  /\ nextTrId = 2
  /\ req = [r \in Req |-> Idle]
  /\ script = NoScript

NextTx ==
  \E r \in Req :
    \/ TransactionCall(r)
    \/ TransactionConnect(r)
    \/ TransactionBegin(r)
    \/ TransactionCallback(r)
    \/ TransactionCommit(r)
    \/ TransactionRollback(r)
    \/ TransactionRelease(r)
    \/ TransactionReturn(r)

SpecTx == InitTx /\ [][NextTx]_vars

\* how many of the statements sent by call c are COMMIT or ROLLBACK
Endings(c) == Cardinality({i \in DOMAIN c.issued : c.issued[i] \in {"COMMIT", "ROLLBACK"}})

\* C30: every call of the transaction helper that obtained a client has, when
\* it ends, released the client exactly once, whether the callback returned or
\* threw and whether COMMIT or ROLLBACK failed; it has sent exactly one of
\* COMMIT and ROLLBACK after BEGIN; and when the callback threw, the caller
\* receives the callback's error.
C30_TransactionHelper ==
  \A r \in Req :
    (tx[r].pc = "done" /\ tx[r].held)
    => /\ tx[r].released = 1
       /\ Endings(tx[r]) = 1
       /\ tx[r].caught = "callback" => tx[r].outcome = "callback"
====
